---- MODULE Spec2Model ----
(***************************************************************************)
(* Verification model of loaf's tool layer and compaction engine.          *)
(*                                                                         *)
(*   SpecBg       one background shell session (src/tools/builtin/bash.ts):*)
(*                its two stream ring buffers, read_background_bash, and   *)
(*                the child-process event handlers.                        *)
(*   SpecCompact  the anchored compaction engine (compaction/engine).      *)
(*   SpecLoad     the events sidecar file and loadCompactionEvents.        *)
(*   SpecStore    the state file and summary mirror under atomic saves,    *)
(*                crashes and loads (compaction/storage.ts).               *)
(*   SpecPolicy   the streaming chunking policy under ticks and resets.    *)
(*   SpecHunks    applyPatchHunks over the hunks of a patch and two files.  *)
(*   SpecSummarize  a pass whose summariser asks the model, with retry.     *)
(*   SpecMerge    one list of the summary under a sequence of merges.      *)
(*   SpecPasses   successive compaction passes over a log whose indices    *)
(*                have gaps.                                               *)
(*   SpecPatch    the update-hunk applier of apply_patch (file-ops.ts).    *)
(*   SpecSess     the registry of background sessions (bash.ts): start     *)
(*                with reuse, write, resize, stop, read, process exit.     *)
(*   SpecReuse    the registry under background starts and exits.          *)
(*   SpecRun      one foreground process run (runCommand in bash.ts);      *)
(*                SpecRunLive adds the fairness of its timers.             *)
(*   SpecShell    the foreground bash call and the persisted cwd/env       *)
(*                baseline (bash.ts).                                      *)
(*   SpecOverlap  two foreground bash calls in flight at the same time.    *)
(*   SpecRt       the tool registry and ToolRuntime.execute.               *)
(*                                                                         *)
(* Each specification drives its own group of variables and leaves the     *)
(* other groups at their initial value.                                    *)
(***************************************************************************)
EXTENDS Integers, Sequences, FiniteSets, TLC

\* ------------------------------------------------------------------------
\* Bounds of the model
\* ------------------------------------------------------------------------

\* Capacity of a stream buffer. The source value is 300_000 (bash.ts:1374);
\* the model keeps the code's arithmetic and scales the capacity down so that
\* overflow, dropping and reads behind the dropped prefix all happen.
MAX_BACKGROUND_CAPTURE_CHARS == 2

\* Source value 8_000 (bash.ts:1375), scaled; kept below the read maximum.
DEFAULT_BACKGROUND_READ_CHARS == 1

\* Source value 120_000 (bash.ts:1376), scaled; kept at most the capacity.
MAX_BACKGROUND_READ_CHARS == 2

\* Longest chunk one data event delivers (longer than the capacity, so that
\* a single chunk can overflow the buffer by itself).
MaxChunk == 3

\* The most descendants of a session's shell that hold its pipes at a time.
MaxPipeHolders == 2

\* Total number of characters the session's process emits on both streams.
MaxOutput == 4

\* Minimum number of recent events a compaction pass keeps. The source value
\* is 12 (compaction/types.ts:66), scaled so that short logs exercise it.
MIN_RECENT_EVENTS == 2

\* Minimum number of recent user turns a compaction pass keeps. The source
\* value is 4 (compaction/types.ts:67), scaled.
MIN_RECENT_USER_TURNS == 1

\* Longest compaction event log.
MaxEvents == 4

\* Longest file an update hunk is applied to, in lines.
MaxFileLines == 3

\* Most chunks in one update hunk.
MaxChunks == 2

\* Largest index the first event of a log may carry (a log rebuilt by
\* backfillEventsFromHistory starts at startIndex, not necessarily 0).
MaxFirstIndex == 1

\* Capacity of the stdout and stderr captures of a foreground run. The
\* source value is 300_000 (bash.ts:1373), scaled.
MAX_CAPTURE_CHARS == 1

\* Most sessions the registry holds.
MaxSessions == 2

\* Total number of characters the registered sessions' processes emit.
MaxSessionOutput == 1

\* ------------------------------------------------------------------------
\* Generic helpers
\* ------------------------------------------------------------------------

Min(a, b) == IF a < b THEN a ELSE b

Max(a, b) == IF a > b THEN a ELSE b

Range(s) == {s[i] : i \in 1..Len(s)}

\* JavaScript's String.prototype.slice / Array.prototype.slice: 0-based, end
\* exclusive, a negative index counts from the end, both clamped to the length.
JsIndex(s, i) == IF i < 0 THEN Max(Len(s) + i, 0) ELSE Min(i, Len(s))

JsSlice(s, from, to) ==
    LET f == JsIndex(s, from)
        t == JsIndex(s, to)
    IN  IF t <= f THEN <<>> ELSE SubSeq(s, f + 1, t)

\* ------------------------------------------------------------------------
\* Background session: state
\* ------------------------------------------------------------------------

VARIABLES
    session,      \* the BackgroundBashSession object
    process,      \* the spawned shell as the operating system sees it
    readOutput,   \* raw result of the last read_background_bash call
    emitted,      \* history: characters delivered so far, per stream
    readLog,      \* history: concatenation of the slices of non-peek reads
    lostUnread    \* history: characters evicted before a non-peek read returned them

bgVars == <<session, process, readOutput, emitted, readLog, lostUnread>>

VARIABLES
    events,       \* the compaction event log of the session
    compState,    \* the persisted compaction state (anchor and summary)
    compResult    \* the last compaction pass: its call and its result

compVars == <<events, compState, compResult>>

VARIABLES
    originalLines,  \* the lines of the file an update hunk applies to
    hunkChunk,      \* the chunk of the hunk handled last
    chunksDone,     \* how many chunks of the hunk have been handled
    lineIndex,      \* the applier's cursor into originalLines
    seekFrom,       \* the cursor the old lines of the last chunk were sought from
    replacements,   \* the replacement records collected so far
    patchStatus,    \* "running", "failed" or "done"
    updatedLines    \* the lines of the file after the replacements

patchVars == <<originalLines, hunkChunk, chunksDone, lineIndex, seekFrom, replacements,
               patchStatus, updatedLines>>

VARIABLES
    backgroundBashSessions,  \* the registry Map, as the sequence of its values in insertion order
    sessionProcess,          \* per registered session: its process as the operating system sees it
    pendingStop,             \* the stop_background_bash call that is in its grace sleep, if any
    toolResult,              \* the last result a session tool returned
    handleCall               \* the last method call on a session's child or pty handle

sessVars == <<backgroundBashSessions, sessionProcess, pendingStop, toolResult, handleCall>>

VARIABLES
    bashSessionState,  \* the persisted cwd/env baseline of the bash tool
    bashCall,          \* the last foreground bash call: its inputs and its result
    foregroundCalls    \* per caller: the locals of its foreground bash call while the command runs

shellVars == <<bashSessionState, bashCall, foregroundCalls>>

VARIABLES
    runChild,     \* the child of a foreground run as the operating system sees it
    abortSignal,  \* options.signal of the run: "none", "idle" or "aborted"
    run,          \* the locals of the runCommand call
    runResult     \* the ProcessRunResult the call returned, once it has

runVars == <<runChild, abortSignal, run, runResult>>

VARIABLES
    toolRegistry,  \* the ToolRegistry: tool name -> registered definition ("none" when absent)
    executeCall    \* the last ToolRuntime.execute call and how its promise settled

rtVars == <<toolRegistry, executeCall>>

VARIABLES
    summaryList,  \* one artifact list of the rolling summary (files_touched, say)
    mergeCall     \* the last mergeSummaryStates call: what it was given for that list

mergeVars == <<summaryList, mergeCall>>

VARIABLES
    eventsJsonl,   \* the events sidecar file: whether it exists, and its lines
    loadedEvents   \* what the last loadCompactionEvents call returned

loadVars == <<eventsJsonl, loadedEvents>>

VARIABLES
    fileSystem,     \* the sidecar files and their .tmp files: what each holds
    saveOp,         \* the save that is between two of its file-system calls, if any
    lastStateSave,  \* history: the last saveCompactionState call and how it ended
    loadedState     \* what the last loadCompactionState call returned

storeVars == <<fileSystem, saveOp, lastStateSave, loadedState>>

VARIABLES
    chunkingPolicy,   \* the StreamingChunkingPolicy object's private fields
    clockMs,          \* the caller's clock: nowMs of the latest tick
    lastTick,         \* history: the latest decide call, its inputs and its result
    leftCatchUpAtMs,  \* history: when a tick last switched catchup to smooth
    heldSinceMs       \* history: first tick of the current run of calm ticks in catchup

policyVars == <<chunkingPolicy, clockMs, lastTick, leftCatchUpAtMs, heldSinceMs>>

VARIABLES
    patchFiles,    \* the files a patch touches: path -> contents
    hunksDone,     \* how many hunks applyPatchHunks has handled
    applyStatus,   \* "running", "failed" or "ok"
    patchSummary,  \* the added / modified / deleted lists collected so far
    lastHunk       \* history: the hunk handled last and the files before it

hunkVars == <<patchFiles, hunksDone, applyStatus, patchSummary, lastHunk>>

VARIABLES
    summarizeCall,  \* the summarizeDeltaWithModel call of the pass under way
    passOutcome     \* how the last runAnchoredCompaction call settled

sumVars == <<summarizeCall, passOutcome>>

VARIABLES
    pipeHolders    \* descendants of a pipe session's shell that hold its stdout/stderr pipes

pipeVars == <<pipeHolders>>

vars == <<bgVars, compVars, patchVars, sessVars, shellVars, runVars, rtVars, mergeVars, loadVars, storeVars, policyVars, hunkVars, sumVars, pipeVars>>

\* What the steps of one subsystem leave alone.
nonBgVars == <<compVars, patchVars, sessVars, shellVars, runVars, rtVars, mergeVars, loadVars, storeVars, policyVars, hunkVars, sumVars, pipeVars>>

nonCompVars == <<bgVars, patchVars, sessVars, shellVars, runVars, rtVars, mergeVars, loadVars, storeVars, policyVars, hunkVars, sumVars, pipeVars>>

nonPatchVars == <<bgVars, compVars, sessVars, shellVars, runVars, rtVars, mergeVars, loadVars, storeVars, policyVars, hunkVars, sumVars, pipeVars>>

nonSessVars == <<bgVars, compVars, patchVars, runVars, rtVars, mergeVars, loadVars, storeVars, policyVars, hunkVars, sumVars, pipeVars>>

nonShellVars == <<bgVars, compVars, patchVars, sessVars, runVars, rtVars, mergeVars, loadVars, storeVars, policyVars, hunkVars, sumVars, pipeVars>>

nonRunVars == <<bgVars, compVars, patchVars, sessVars, shellVars, rtVars, mergeVars, loadVars, storeVars, policyVars, hunkVars, sumVars, pipeVars>>

nonRtVars == <<bgVars, compVars, patchVars, sessVars, shellVars, runVars, mergeVars, loadVars, storeVars, policyVars, hunkVars, sumVars, pipeVars>>

nonMergeVars == <<bgVars, compVars, patchVars, sessVars, shellVars, runVars, rtVars, loadVars, storeVars, policyVars, hunkVars, sumVars, pipeVars>>

nonLoadVars == <<bgVars, compVars, patchVars, sessVars, shellVars, runVars, rtVars, mergeVars, storeVars, policyVars, hunkVars, sumVars, pipeVars>>

nonStoreVars == <<bgVars, compVars, patchVars, sessVars, shellVars, runVars, rtVars, mergeVars, loadVars, policyVars, hunkVars, sumVars, pipeVars>>

nonPolicyVars == <<bgVars, compVars, patchVars, sessVars, shellVars, runVars, rtVars, mergeVars, loadVars, storeVars, hunkVars, sumVars, pipeVars>>

nonHunkVars == <<bgVars, compVars, patchVars, sessVars, shellVars, runVars, rtVars, mergeVars, loadVars, storeVars, policyVars, sumVars, pipeVars>>

nonSumVars == <<bgVars, compVars, patchVars, sessVars, shellVars, runVars, rtVars, mergeVars, loadVars, storeVars, policyVars, hunkVars, pipeVars>>

nonCompSumVars == <<bgVars, patchVars, sessVars, shellVars, runVars, rtVars, mergeVars, loadVars, storeVars, policyVars, hunkVars, pipeVars>>

nonPipeVars == <<bgVars, compVars, patchVars, sessVars, shellVars, runVars, rtVars, mergeVars, loadVars, storeVars, policyVars, hunkVars, sumVars>>

StreamNames == {"stdout", "stderr"}

\* A character is identified by the ordinal of its emission on its stream
\* (1, 2, 3, ...): the stream code never inspects a chunk's characters, only
\* its length, and distinct labels make any loss, duplication or reordering
\* visible.
Labels(from, n) == [i \in 1..n |-> from + i]

createBackgroundStreamState ==
    [buffer |-> <<>>, totalChars |-> 0, droppedChars |-> 0, readCursor |-> 0]

\* Variant: the overflow is cut from the buffer but not counted as dropped.
appendToBackgroundStream_NoDropCount(stream, chunk) ==
    IF Len(chunk) = 0
    THEN stream
    ELSE LET total == stream.totalChars + Len(chunk)
             joined == stream.buffer \o chunk
         IN  IF Len(joined) > MAX_BACKGROUND_CAPTURE_CHARS
             THEN LET dropCount == Len(joined) - MAX_BACKGROUND_CAPTURE_CHARS
                  IN  [stream EXCEPT !.totalChars = total,
                                     !.buffer = JsSlice(joined, dropCount, Len(joined))]
             ELSE [stream EXCEPT !.totalChars = total, !.buffer = joined]

appendToBackgroundStream(stream, chunk) ==
    IF Len(chunk) = 0
    THEN stream
    ELSE LET total == stream.totalChars + Len(chunk)
             joined == stream.buffer \o chunk
         IN  IF Len(joined) > MAX_BACKGROUND_CAPTURE_CHARS
             THEN LET dropCount == Len(joined) - MAX_BACKGROUND_CAPTURE_CHARS
                  IN  [stream EXCEPT !.totalChars = total,
                                     !.buffer = JsSlice(joined, dropCount, Len(joined)),
                                     !.droppedChars = @ + dropCount]
             ELSE [stream EXCEPT !.totalChars = total, !.buffer = joined]

\* Variant: the read starts at the stored cursor even when it is behind the
\* dropped prefix.
readBackgroundStream_NoSkip(stream, maxChars, peek) ==
    LET dropped == stream.readCursor < stream.droppedChars
        startCursor == stream.readCursor
        availableChars == Max(0, stream.totalChars - startCursor)
        readChars == Min(maxChars, availableChars)
        startIndex == Max(0, startCursor - stream.droppedChars)
        text == IF readChars > 0
                THEN JsSlice(stream.buffer, startIndex, startIndex + readChars)
                ELSE <<>>
        nextCursor == startCursor + Len(text)
        hasMore == stream.totalChars > nextCursor
    IN  [text |-> text, cursor |-> nextCursor, hasMore |-> hasMore,
         dropped |-> dropped,
         stream |-> IF peek THEN stream ELSE [stream EXCEPT !.readCursor = nextCursor]]

\* Variant: the slice is taken at the absolute cursor instead of the buffer
\* index (droppedChars is not subtracted).
readBackgroundStream_AbsIndex(stream, maxChars, peek) ==
    LET dropped == stream.readCursor < stream.droppedChars
        startCursor == Max(stream.readCursor, stream.droppedChars)
        availableChars == Max(0, stream.totalChars - startCursor)
        readChars == Min(maxChars, availableChars)
        startIndex == startCursor
        text == IF readChars > 0
                THEN JsSlice(stream.buffer, startIndex, startIndex + readChars)
                ELSE <<>>
        nextCursor == startCursor + Len(text)
        hasMore == stream.totalChars > nextCursor
    IN  [text |-> text, cursor |-> nextCursor, hasMore |-> hasMore,
         dropped |-> dropped,
         stream |-> IF peek THEN stream ELSE [stream EXCEPT !.readCursor = nextCursor]]

\* Variant: the cursor advances on a peek too.
readBackgroundStream_PeekAdvances(stream, maxChars, peek) ==
    LET dropped == stream.readCursor < stream.droppedChars
        startCursor == Max(stream.readCursor, stream.droppedChars)
        availableChars == Max(0, stream.totalChars - startCursor)
        readChars == Min(maxChars, availableChars)
        startIndex == startCursor - stream.droppedChars
        text == IF readChars > 0
                THEN JsSlice(stream.buffer, startIndex, startIndex + readChars)
                ELSE <<>>
        nextCursor == startCursor + Len(text)
        hasMore == stream.totalChars > nextCursor
    IN  [text |-> text, cursor |-> nextCursor, hasMore |-> hasMore,
         dropped |-> dropped,
         stream |-> [stream EXCEPT !.readCursor = nextCursor]]

\* Variant: has_more compares against the cursor before the read.
readBackgroundStream_StaleHasMore(stream, maxChars, peek) ==
    LET dropped == stream.readCursor < stream.droppedChars
        startCursor == Max(stream.readCursor, stream.droppedChars)
        availableChars == Max(0, stream.totalChars - startCursor)
        readChars == Min(maxChars, availableChars)
        startIndex == startCursor - stream.droppedChars
        text == IF readChars > 0
                THEN JsSlice(stream.buffer, startIndex, startIndex + readChars)
                ELSE <<>>
        nextCursor == startCursor + Len(text)
        hasMore == stream.totalChars > startCursor
    IN  [text |-> text, cursor |-> nextCursor, hasMore |-> hasMore,
         dropped |-> dropped,
         stream |-> IF peek THEN stream ELSE [stream EXCEPT !.readCursor = nextCursor]]

\* Variant: the trailing part of the slice is lost (one character short).
readBackgroundStream_ShortSlice(stream, maxChars, peek) ==
    LET dropped == stream.readCursor < stream.droppedChars
        startCursor == Max(stream.readCursor, stream.droppedChars)
        availableChars == Max(0, stream.totalChars - startCursor)
        readChars == Min(maxChars, availableChars)
        startIndex == startCursor - stream.droppedChars
        text == IF readChars > 0
                THEN JsSlice(stream.buffer, startIndex + 1, startIndex + readChars)
                ELSE <<>>
        nextCursor == startCursor + readChars
        hasMore == stream.totalChars > nextCursor
    IN  [text |-> text, cursor |-> nextCursor, hasMore |-> hasMore,
         dropped |-> dropped,
         stream |-> IF peek THEN stream ELSE [stream EXCEPT !.readCursor = nextCursor]]

\* The value returned by readBackgroundStream together with the stream as the
\* call leaves it.
readBackgroundStream(stream, maxChars, peek) ==
    LET dropped == stream.readCursor < stream.droppedChars
        startCursor == Max(stream.readCursor, stream.droppedChars)
        availableChars == Max(0, stream.totalChars - startCursor)
        readChars == Min(maxChars, availableChars)
        startIndex == startCursor - stream.droppedChars
        text == IF readChars > 0
                THEN JsSlice(stream.buffer, startIndex, startIndex + readChars)
                ELSE <<>>
        nextCursor == startCursor + Len(text)
        hasMore == stream.totalChars > nextCursor
    IN  [text |-> text, cursor |-> nextCursor, hasMore |-> hasMore,
         dropped |-> dropped,
         stream |-> IF peek THEN stream ELSE [stream EXCEPT !.readCursor = nextCursor]]

createEmptyBackgroundRead(cursor, stream) ==
    [text |-> <<>>, cursor |-> cursor, hasMore |-> FALSE, dropped |-> FALSE,
     stream |-> stream]

\* max_chars as the caller may pass it: absent, or a number given in halves
\* (half = 3 stands for 1.5), so that Math.floor has something to do.
JsUndefined == [type |-> "undefined", half |-> 0]

JsNumber(half) == [type |-> "number", half |-> half]

MaxCharsInputs ==
    {JsUndefined, JsNumber(0), JsNumber(1), JsNumber(2 * MAX_BACKGROUND_READ_CHARS + 3)}

MathFloor(value) == value.half \div 2

parseBackgroundReadChars(value) ==
    IF value.type # "number" \/ value.half <= 0
    THEN DEFAULT_BACKGROUND_READ_CHARS
    ELSE Max(1, Min(MAX_BACKGROUND_READ_CHARS, MathFloor(value)))

\* stream selector as the caller may pass it: absent, a string, or a number.
ValidStreamInputs == {"undefined", "stdout", " STDERR "}

InvalidStreamInputs == {"other", "7"}

\* value.trim().toLowerCase() on the string inputs above.
TrimLower(value) == IF value = " STDERR " THEN "stderr" ELSE value

normalizeBackgroundStreamSelector(value) ==
    IF value = "undefined" THEN "both"
    ELSE IF value = "7" THEN "null"
    ELSE IF TrimLower(value) \in {"both", "stdout", "stderr"} THEN TrimLower(value)
    ELSE "null"

ExitCodes == {"0"}

Signals == {"SIGTERM"}

\* The session object built by bashTool.run for run_in_background, after the
\* transport has been set up.
NewSession(fullTerminal) ==
    [status |-> "running", exitCode |-> "null", signal |-> "null",
     stdout |-> createBackgroundStreamState,
     stderr |-> createBackgroundStreamState,
     child |-> IF fullTerminal THEN "null" ELSE "handle",
     pty |-> IF fullTerminal THEN "handle" ELSE "null",
     transport |-> IF fullTerminal THEN "pty" ELSE "pipe",
     fullTerminal |-> fullTerminal]

RawRead(r) ==
    [text |-> r.text, cursor |-> r.cursor, hasMore |-> r.hasMore, dropped |-> r.dropped]

EmptyRead == [text |-> <<>>, cursor |-> 0, hasMore |-> FALSE, dropped |-> FALSE]

\* The last read_background_bash call: the parsed arguments it ran with and
\* its result, with the two reads as readBackgroundStream returned them
\* (before sanitizeTerminalOutput). call is the parity of the number of calls
\* made so far, so that two successive calls with equal results stay distinct.
ToolOutput(call, status, maxChars, stream, peek, running, exitCode, signal, stdoutRead, stderrRead) ==
    [call |-> call, status |-> status, maxChars |-> maxChars, stream |-> stream,
     peek |-> peek, running |-> running, exit_code |-> exitCode,
     signal |-> signal, stdout |-> stdoutRead, stderr |-> stderrRead]

NoOutput ==
    ToolOutput(0, "none", 0, "null", FALSE, FALSE, "null", "null", EmptyRead, EmptyRead)

\* invalidInput(...)
InvalidInput(call) ==
    ToolOutput(call, "invalid", 0, "null", FALSE, FALSE, "null", "null",
               EmptyRead, EmptyRead)

asBoolean(value) == value = "true"

BoolInputs == {"undefined", "true"}

InitBgVars ==
    /\ \E fullTerminal \in BOOLEAN : session = NewSession(fullTerminal)
    /\ process = [state |-> "running", exitCode |-> "null", signal |-> "null"]
    /\ readOutput = NoOutput
    /\ emitted = [s \in StreamNames |-> 0]
    /\ readLog = [s \in StreamNames |-> <<>>]
    /\ lostUnread = [s \in StreamNames |-> {}]

\* No background session takes part: the one session there is never runs.
IdleBgVars ==
    /\ session = NewSession(FALSE)
    /\ process = [state |-> "running", exitCode |-> "null", signal |-> "null"]
    /\ readOutput = NoOutput
    /\ emitted = [s \in StreamNames |-> 0]
    /\ readLog = [s \in StreamNames |-> <<>>]
    /\ lostUnread = [s \in StreamNames |-> {}]

\* ------------------------------------------------------------------------
\* Background session: data events
\* ------------------------------------------------------------------------

EmittedTotal == emitted["stdout"] + emitted["stderr"]

\* History bookkeeping of one data event on stream s: the characters that are
\* in the buffer (or in the chunk) before the append, are not in the buffer
\* after it, and were never returned by a non-peek read, are lost unread.
Delivered(s, chunk, before, after) ==
    /\ emitted' = [emitted EXCEPT ![s] = @ + Len(chunk)]
    /\ lostUnread' = [lostUnread EXCEPT ![s] =
           @ \cup (((Range(before.buffer) \cup Range(chunk)) \ Range(after.buffer))
                     \ Range(readLog[s]))]

\* pty.onData
PtyOnData(n) ==
    /\ session.transport = "pty"
    /\ process.state = "running"
    /\ EmittedTotal + n <= MaxOutput
    /\ LET chunk == Labels(emitted["stdout"], n)
           next == appendToBackgroundStream(session.stdout, chunk)
       IN  /\ session' = [session EXCEPT !.stdout = next]
           /\ Delivered("stdout", chunk, session.stdout, next)
    /\ UNCHANGED <<process, readOutput, readLog, nonBgVars>>

\* child.stdout.on("data")
ChildStdoutOnData(n) ==
    /\ session.transport = "pipe"
    /\ process.state # "closed"
    /\ EmittedTotal + n <= MaxOutput
    /\ LET chunk == Labels(emitted["stdout"], n)
           next == appendToBackgroundStream(session.stdout, chunk)
       IN  /\ session' = [session EXCEPT !.stdout = next]
           /\ Delivered("stdout", chunk, session.stdout, next)
    /\ UNCHANGED <<process, readOutput, readLog, nonBgVars>>

\* child.stderr.on("data")
ChildStderrOnData(n) ==
    /\ session.transport = "pipe"
    /\ process.state # "closed"
    /\ EmittedTotal + n <= MaxOutput
    /\ LET chunk == Labels(emitted["stderr"], n)
           next == appendToBackgroundStream(session.stderr, chunk)
       IN  /\ session' = [session EXCEPT !.stderr = next]
           /\ Delivered("stderr", chunk, session.stderr, next)
    /\ UNCHANGED <<process, readOutput, readLog, nonBgVars>>

\* child.on("error"): the text "[spawn error] <message>\n" goes to stderr; its
\* length n is at least the fixed prefix and newline, here at least 1.
ChildOnError(n) ==
    /\ session.transport = "pipe"
    /\ process.state # "closed"
    /\ n >= 1
    /\ EmittedTotal + n <= MaxOutput
    /\ LET chunk == Labels(emitted["stderr"], n)
           next == appendToBackgroundStream(session.stderr, chunk)
       IN  /\ session' = [session EXCEPT !.stderr = next]
           /\ Delivered("stderr", chunk, session.stderr, next)
    /\ UNCHANGED <<process, readOutput, readLog, nonBgVars>>

\* ------------------------------------------------------------------------
\* Background session: process exit
\* ------------------------------------------------------------------------

NumberIsFinite(code) == code \in ExitCodes

\* Variant: the exit code is recorded but the status is left running.
PtyOnExit_StatusKept(exitCode) ==
    /\ session.transport = "pty"
    /\ process.state = "running"
    /\ process' = [state |-> "closed", exitCode |-> exitCode, signal |-> "null"]
    /\ session' = [session EXCEPT
           !.exitCode = IF exitCode \in ExitCodes THEN exitCode ELSE "null",
           !.signal = "null"]
    /\ UNCHANGED <<readOutput, emitted, readLog, lostUnread, nonBgVars>>

\* pty.onExit
PtyOnExit(exitCode) ==
    /\ session.transport = "pty"
    /\ process.state = "running"
    /\ process' = [state |-> "closed", exitCode |-> exitCode, signal |-> "null"]
    /\ session' = [session EXCEPT
           !.status = "exited",
           !.exitCode = IF NumberIsFinite(exitCode) THEN exitCode ELSE "null",
           !.signal = "null"]
    /\ UNCHANGED <<readOutput, emitted, readLog, lostUnread, nonBgVars>>

\* The shell of a pipe session ends, by exit code or by signal. Background
\* sessions register no "exit" listener, so the session object is untouched.
ChildExit(exitCode, signal) ==
    /\ session.transport = "pipe"
    /\ process.state = "running"
    /\ (exitCode = "null") # (signal = "null")
    /\ process' = [state |-> "exited", exitCode |-> exitCode, signal |-> signal]
    /\ UNCHANGED <<session, readOutput, emitted, readLog, lostUnread, nonBgVars>>

\* child.on("close"): fires once, after the process has ended and its stdio
\* streams have closed.
ChildOnClose ==
    /\ session.transport = "pipe"
    /\ process.state = "exited"
    /\ process' = [process EXCEPT !.state = "closed"]
    /\ session' = [session EXCEPT
           !.status = "exited",
           !.exitCode = process.exitCode,
           !.signal = process.signal]
    /\ UNCHANGED <<readOutput, emitted, readLog, lostUnread, nonBgVars>>

\* ------------------------------------------------------------------------
\* Background session: read_background_bash
\* ------------------------------------------------------------------------

\* readBackgroundBashTool.run
ReadBackgroundBash(validId, maxCharsIn, streamIn, peekIn) ==
    IF ~validId
    THEN /\ readOutput' = InvalidInput(1 - readOutput.call)
         /\ UNCHANGED <<session, process, emitted, readLog, lostUnread, nonBgVars>>
    ELSE LET maxChars == parseBackgroundReadChars(maxCharsIn)
             stream == normalizeBackgroundStreamSelector(streamIn)
             peek == asBoolean(peekIn)
         IN  IF stream = "null"
             THEN /\ readOutput' = InvalidInput(1 - readOutput.call)
                  /\ UNCHANGED <<session, process, emitted, readLog, lostUnread, nonBgVars>>
             ELSE LET stdoutRead ==
                          IF stream = "both" \/ stream = "stdout"
                          THEN readBackgroundStream(session.stdout, maxChars, peek)
                          ELSE createEmptyBackgroundRead(session.stdout.readCursor,
                                                         session.stdout)
                      stderrRead ==
                          IF stream = "both" \/ stream = "stderr"
                          THEN readBackgroundStream(session.stderr, maxChars, peek)
                          ELSE createEmptyBackgroundRead(session.stderr.readCursor,
                                                         session.stderr)
                  IN  /\ session' = [session EXCEPT !.stdout = stdoutRead.stream,
                                                    !.stderr = stderrRead.stream]
                      /\ readOutput' = ToolOutput(1 - readOutput.call, "ok",
                             maxChars, stream, peek,
                             session.status = "running", session.exitCode,
                             session.signal, RawRead(stdoutRead), RawRead(stderrRead))
                      /\ readLog' = IF peek THEN readLog
                                    ELSE [readLog EXCEPT
                                            !["stdout"] = @ \o stdoutRead.text,
                                            !["stderr"] = @ \o stderrRead.text]
                      /\ UNCHANGED <<process, emitted, lostUnread, nonBgVars>>

ReadStep ==
    \/ ReadBackgroundBash(FALSE, JsUndefined, "undefined", "undefined")
    \/ \E streamIn \in InvalidStreamInputs :
           ReadBackgroundBash(TRUE, JsUndefined, streamIn, "undefined")
    \/ \E maxCharsIn \in MaxCharsInputs, streamIn \in ValidStreamInputs,
          peekIn \in BoolInputs :
           ReadBackgroundBash(TRUE, maxCharsIn, streamIn, peekIn)

NextBg ==
    \/ \E n \in 0..MaxChunk : PtyOnData(n)
    \/ \E n \in 0..MaxChunk : ChildStdoutOnData(n)
    \/ \E n \in 0..MaxChunk : ChildStderrOnData(n)
    \/ \E n \in 1..MaxChunk : ChildOnError(n)
    \/ \E exitCode \in ExitCodes \cup {"undefined"} : PtyOnExit(exitCode)
    \/ \E exitCode \in ExitCodes \cup {"null"}, signal \in Signals \cup {"null"} :
           ChildExit(exitCode, signal)
    \/ ChildOnClose
    \/ ReadStep

\* ------------------------------------------------------------------------
\* Background session: a pipe session whose shell has started other processes
\* ------------------------------------------------------------------------

InitPipeVars == pipeHolders = 0

IdlePipeVars == pipeHolders = 0

\* The shell is spawned with stdio ["pipe", "pipe", "pipe"]: a process it
\* starts (cmd &), or one such a process starts, inherits the write ends of
\* the stdout and stderr pipes and keeps them open while it lives.
DescendantSpawn ==
    /\ session.transport = "pipe"
    /\ process.state = "running" \/ pipeHolders > 0
    /\ pipeHolders < MaxPipeHolders
    /\ pipeHolders' = pipeHolders + 1
    /\ UNCHANGED nonPipeVars

\* A descendant ends, or closes its copies of the pipes.
DescendantExit ==
    /\ pipeHolders > 0
    /\ pipeHolders' = pipeHolders - 1
    /\ UNCHANGED nonPipeVars

\* child.on("close") as Node emits it: after the shell has ended and every
\* holder of the stdout and stderr pipes has closed them.
PipeChildOnClose == pipeHolders = 0 /\ ChildOnClose

NextPipe ==
    \/ \E n \in 1..MaxChunk : ChildStdoutOnData(n)
    \/ \E exitCode \in ExitCodes \cup {"null"}, signal \in Signals \cup {"null"} :
           ChildExit(exitCode, signal)
    \/ DescendantSpawn
    \/ DescendantExit
    \/ PipeChildOnClose
    \/ ReadStep

\* ------------------------------------------------------------------------
\* Background session: properties
\* ------------------------------------------------------------------------

Stream(sess, s) == IF s = "stdout" THEN sess.stdout ELSE sess.stderr

\* The streams the call recorded in out has read.
SelectedBy(out) ==
    IF out.stream = "both" THEN StreamNames
    ELSE IF out.stream \in StreamNames THEN {out.stream}
    ELSE {}

\* This step is a read_background_bash call that passed input validation.
OkReadStep == readOutput'.call # readOutput.call /\ readOutput'.status = "ok"

\* A non-peek read has reported no more data on s and nothing was appended
\* to s since.
Drained(s) ==
    /\ readOutput.status = "ok"
    /\ ~readOutput.peek
    /\ ~readOutput[s].hasMore
    /\ readOutput[s].cursor = Stream(session, s).totalChars

\* The whole output of stream s, in order.
Produced(s) == Labels(0, emitted[s])

NotLost(s, label) == label \notin lostUnread[s]

\* C1 (as stated): once a non-peek read reports no more data, the
\* concatenation of the slices returned by the non-peek reads equals the whole
\* produced output with only its leading droppedChars characters trimmed.
C1_ConcatIsOutputMinusDropped ==
    \A s \in StreamNames :
        Drained(s) =>
            readLog[s] = JsSlice(Produced(s), Stream(session, s).droppedChars,
                                 emitted[s])

\* C1 (amended): once a non-peek read reports no more data, the concatenation
\* of the slices equals the whole produced output without exactly the
\* characters that were evicted from the buffer before a non-peek read had
\* returned them; it is the output with its leading droppedChars trimmed
\* whenever no character already returned has been evicted since.
C1_ConcatIsOutputMinusLost ==
    \A s \in StreamNames :
        Drained(s) =>
            /\ readLog[s] = SelectSeq(Produced(s), LAMBDA label : NotLost(s, label))
            /\ (\A label \in Range(readLog[s]) :
                    label > Stream(session, s).droppedChars)
                 => readLog[s] = JsSlice(Produced(s), Stream(session, s).droppedChars,
                                         emitted[s])

\* Reads returned data, output was then evicted unread, and a later read
\* drained the stream.
C1_Witness ==
    /\ Drained("stdout")
    /\ lostUnread["stdout"] # {}
    /\ \E label \in Range(readLog["stdout"]) : label <= session.stdout.droppedChars
    /\ \E label \in Range(readLog["stdout"]) : label > session.stdout.droppedChars

\* C5 (as stated): in every reachable state the read cursor is at least
\* droppedChars.
C5_CursorAtLeastDropped ==
    \A s \in StreamNames :
        Stream(session, s).readCursor >= Stream(session, s).droppedChars

\* C5 (amended): appends may push droppedChars beyond the stored cursor; the
\* cursor every read returns is at least droppedChars, the stored cursor is
\* at least droppedChars right after every non-peek read of the stream, and
\* it never exceeds totalChars.
C5_CursorAtLeastDroppedAfterRead ==
    /\ [](\A s \in StreamNames :
            Stream(session, s).readCursor <= Stream(session, s).totalChars)
    /\ [][OkReadStep =>
            \A s \in SelectedBy(readOutput') :
                /\ readOutput'[s].cursor >= Stream(session', s).droppedChars
                /\ ~readOutput'.peek =>
                       Stream(session', s).readCursor >= Stream(session', s).droppedChars]_vars

\* A non-peek read that started behind the dropped prefix has moved the
\* cursor to or past it.
C5_Witness ==
    /\ readOutput.status = "ok"
    /\ ~readOutput.peek
    /\ readOutput.stdout.dropped
    /\ session.stdout.droppedChars > 0
    /\ session.stdout.readCursor >= session.stdout.droppedChars

\* C6: buffer.length = min(totalChars - droppedChars, capacity); the buffer
\* never exceeds the capacity, holds the most recently appended characters in
\* arrival order, and droppedChars counts exactly the characters removed from
\* its front.
C6_BufferIsBoundedTail ==
    \A s \in StreamNames :
        LET st == Stream(session, s)
        IN  /\ Len(st.buffer) = Min(st.totalChars - st.droppedChars,
                                    MAX_BACKGROUND_CAPTURE_CHARS)
            /\ Len(st.buffer) <= MAX_BACKGROUND_CAPTURE_CHARS
            /\ st.totalChars = emitted[s]
            /\ st.buffer = JsSlice(Produced(s), emitted[s] - Len(st.buffer), emitted[s])
            /\ st.droppedChars = emitted[s] - Len(st.buffer)

\* The buffer is full and its front has been dropped.
C6_Witness ==
    /\ session.stdout.droppedChars > 0
    /\ Len(session.stdout.buffer) = MAX_BACKGROUND_CAPTURE_CHARS
    /\ session.stdout.totalChars > MAX_BACKGROUND_CAPTURE_CHARS

\* C7: every read of a stream returns the slice of the produced output that
\* starts at absolute position max(cursor, droppedChars) and has length
\* min(maxChars, totalChars - max(cursor, droppedChars)); a non-peek read then
\* sets the cursor to the end of that slice.
C7_ReadReturnsSliceAtCursor ==
    [][OkReadStep =>
          \A s \in SelectedBy(readOutput') :
              LET st == Stream(session, s)
                  start == Max(st.readCursor, st.droppedChars)
                  length == Min(readOutput'.maxChars, st.totalChars - start)
              IN  /\ readOutput'[s].text = JsSlice(Produced(s), start, start + length)
                  /\ Len(readOutput'[s].text) = length
                  /\ readOutput'[s].cursor = start + length
                  /\ ~readOutput'.peek =>
                         Stream(session', s).readCursor = start + length]_vars

\* A read behind the dropped prefix returned a non-empty slice shorter than
\* what was available.
C7_Witness ==
    /\ readOutput.status = "ok"
    /\ readOutput.stdout.dropped
    /\ readOutput.stdout.hasMore
    /\ Len(readOutput.stdout.text) > 0

\* C8: the read cursor never decreases; only a non-peek read of that stream
\* changes it; a peek read, or a read that selects only the other stream,
\* leaves the stream's buffer, totalChars, droppedChars and cursor unchanged.
C8_CursorMonotonic ==
    [][\A s \in StreamNames :
          /\ Stream(session', s).readCursor >= Stream(session, s).readCursor
          /\ Stream(session', s).readCursor # Stream(session, s).readCursor =>
                 /\ OkReadStep
                 /\ ~readOutput'.peek
                 /\ s \in SelectedBy(readOutput')
          /\ (OkReadStep /\ (readOutput'.peek \/ s \notin SelectedBy(readOutput')))
                 => Stream(session', s) = Stream(session, s)]_vars

\* A peek returned data and the stored cursor stayed behind the cursor the
\* peek reported.
C8_Witness ==
    /\ readOutput.status = "ok"
    /\ readOutput.peek
    /\ Len(readOutput.stdout.text) > 0
    /\ session.stdout.readCursor < readOutput.stdout.cursor
    /\ session.stdout.readCursor > 0

\* C9: a read of a stream reports dropped=true exactly when the stored cursor
\* was behind droppedChars at its start, and has_more=true exactly when
\* totalChars exceeds the cursor it returns; after a non-peek read that
\* reported dropped=true, a following read with nothing appended in between
\* reports dropped=false.
C9_DroppedAndHasMoreFlags ==
    [][OkReadStep =>
          \A s \in SelectedBy(readOutput') :
              /\ readOutput'[s].dropped
                   = (Stream(session, s).readCursor < Stream(session, s).droppedChars)
              /\ readOutput'[s].hasMore
                   = (Stream(session, s).totalChars > readOutput'[s].cursor)
              /\ (~readOutput'.peek /\ readOutput'[s].dropped) =>
                     \A maxChars \in 1..MAX_BACKGROUND_READ_CHARS, peek \in BOOLEAN :
                         ~readBackgroundStream(Stream(session', s), maxChars,
                                               peek).dropped]_vars

\* A non-peek read reported dropped=true and has_more=true.
C9_Witness ==
    /\ readOutput.status = "ok"
    /\ ~readOutput.peek
    /\ readOutput.stderr.dropped
    /\ readOutput.stderr.hasMore

\* C10: the status starts as running, changes to exited at most once and only
\* in the exit/close handler, never returns to running, and exit_code and
\* signal are null whenever the status is running.
C10_StatusRunningThenExited ==
    /\ session.status = "running"
    /\ [](session.status \in {"running", "exited"})
    /\ [](session.status = "running" =>
            session.exitCode = "null" /\ session.signal = "null")
    /\ [][session.status = "exited" => session'.status = "exited"]_vars
    /\ [][session'.status # session.status =>
            \/ \E exitCode \in ExitCodes \cup {"undefined"} : PtyOnExit(exitCode)
            \/ ChildOnClose]_vars

\* A pipe session has exited by signal and has been read afterwards.
C10_Witness ==
    /\ session.status = "exited"
    /\ session.transport = "pipe"
    /\ session.signal # "null"
    /\ readOutput.status = "ok"
    /\ ~readOutput.running

\* C36: a pipe session is eventually marked exited after its shell has
\* exited, also when a descendant keeps the session's stdout/stderr pipes
\* open.
C36_PipeSessionEventuallyExited ==
    (session.transport = "pipe" /\ process.state = "exited") ~> (session.status = "exited")

\* ------------------------------------------------------------------------
\* Compaction engine: events, summaries, token estimates
\* ------------------------------------------------------------------------

\* Ratios in percent. For the context windows used below, IEEE-754
\* Math.floor(window * 0.82) and Math.floor(window * 0.58) equal the exact
\* integer quotients computed here.
HIGH_WATERMARK_RATIO == 82

TARGET_RATIO == 58

EventTypes == {"user_msg", "assistant_msg"}

\* The text a turn records for an event of each type; every event of this
\* model carries a non-empty text.
EventText(type) == IF type = "user_msg" THEN "question" ELSE "answer"

CompactEvent(index, type) == [index |-> index, type |-> type, text |-> EventText(type)]

\* Summary entries as the summariser may write them, with their lower-cased
\* and trimmed forms.
ToLowerCase(item) == IF item = "A" THEN "a" ELSE IF item = "B" THEN "b" ELSE item

Trim(item) == IF item = " " THEN "" ELSE IF item = " b" THEN "b" ELSE item

RECURSIVE normalizeStringList(_)
normalizeStringList(list) ==
    IF list = <<>>
    THEN <<>>
    ELSE LET front == normalizeStringList(SubSeq(list, 1, Len(list) - 1))
             trimmed == Trim(list[Len(list)])
         IN  IF trimmed = "" THEN front
             ELSE IF \E i \in 1..Len(front) :
                        ToLowerCase(front[i]) = ToLowerCase(trimmed)
                  THEN front
                  ELSE Append(front, trimmed)

\* Variant: entries are compared as they are, not lower-cased.
RECURSIVE appendDedup_CaseSensitive(_, _)
appendDedup_CaseSensitive(existing, incoming) ==
    IF incoming = <<>>
    THEN existing
    ELSE LET item == Head(incoming)
             merged == IF Trim(item) = "" THEN existing
                       ELSE IF \E i \in 1..Len(existing) : existing[i] = item
                            THEN existing
                            ELSE Append(existing, item)
         IN  appendDedup_CaseSensitive(merged, Tail(incoming))

RECURSIVE appendDedup(_, _)
appendDedup(existing, incoming) ==
    IF incoming = <<>>
    THEN existing
    ELSE LET item == Head(incoming)
             merged == IF Trim(item) = "" THEN existing
                       ELSE IF \E i \in 1..Len(existing) :
                                  ToLowerCase(existing[i]) = ToLowerCase(item)
                            THEN existing
                            ELSE Append(existing, item)
         IN  appendDedup(merged, Tail(incoming))

\* SummaryState, reduced to its intent, one of its string lists (progress; the
\* other lists are merged by the same appendDedup) and its timestamp.
SummaryState(intent, progress, updatedAt) ==
    [intent |-> intent, progress |-> progress, updated_at_iso |-> updatedAt]

createEmptySummaryState(nowIso) == SummaryState("", <<>>, nowIso)

normalizeSummaryState(value) ==
    SummaryState(Trim(value.intent), normalizeStringList(value.progress),
                 value.updated_at_iso)

\* Variant: the candidate replaces the previous summary.
mergeSummaryStates_CandidateOnly(previousIn, candidateIn, nowIso) ==
    LET candidate == normalizeSummaryState(candidateIn)
    IN  SummaryState(candidate.intent, candidate.progress, nowIso)

mergeSummaryStates(previousIn, candidateIn, nowIso) ==
    LET previous == normalizeSummaryState(previousIn)
        candidate == normalizeSummaryState(candidateIn)
    IN  SummaryState(IF candidate.intent # "" THEN candidate.intent ELSE previous.intent,
                     appendDedup(previous.progress, candidate.progress),
                     nowIso)

isSummaryEffectivelyEmpty(summaryState) ==
    LET summary == normalizeSummaryState(summaryState)
    IN  summary.intent = "" /\ Len(summary.progress) = 0

NullMessage == [role |-> "null", text |-> "", tokens |-> 0]

\* The caller's estimate of one message: the event texts and the rendered
\* summary are worth a fixed number of tokens each.
TextTokens(text) == IF text = "question" THEN 2 ELSE 1

compactEventToChatMessage(event) ==
    IF event.text = ""
    THEN NullMessage
    ELSE [role |-> IF event.type = "user_msg" THEN "user" ELSE "assistant",
          text |-> event.text, tokens |-> TextTokens(event.text)]

RECURSIVE toChatMessages(_)
toChatMessages(evs) ==
    IF evs = <<>>
    THEN <<>>
    ELSE LET message == compactEventToChatMessage(Head(evs))
         IN  IF message = NullMessage
             THEN toChatMessages(Tail(evs))
             ELSE <<message>> \o toChatMessages(Tail(evs))

buildSummaryMessage(summaryState) ==
    IF isSummaryEffectivelyEmpty(summaryState)
    THEN NullMessage
    ELSE [role |-> "assistant", text |-> "summary",
          tokens |-> 1 + Len(summaryState.progress)]

buildModelContextMessages(summaryState, evs, anchorEventIndex) ==
    LET summaryMessage == buildSummaryMessage(summaryState)
        eventMessages == toChatMessages(JsSlice(evs, Max(0, anchorEventIndex), Len(evs)))
    IN  IF summaryMessage # NullMessage
        THEN <<summaryMessage>> \o eventMessages
        ELSE eventMessages

RECURSIVE estimateHistoryTokens(_)
estimateHistoryTokens(messages) ==
    IF messages = <<>> THEN 0
    ELSE Head(messages).tokens + estimateHistoryTokens(Tail(messages))

estimateCompactionContextTokens(summaryState, evs, anchorEventIndex, pinnedTokenEstimate) ==
    pinnedTokenEstimate
      + estimateHistoryTokens(buildModelContextMessages(summaryState, evs, anchorEventIndex))

\* input.events.slice().sort((left, right) => left.index - right.index)
RECURSIVE SortByIndex(_)
SortByIndex(evs) ==
    IF evs = <<>>
    THEN <<>>
    ELSE LET sorted == SortByIndex(SubSeq(evs, 1, Len(evs) - 1))
             last == evs[Len(evs)]
             before == SelectSeq(sorted, LAMBDA e : e.index <= last.index)
             after == SelectSeq(sorted, LAMBDA e : e.index > last.index)
         IN  before \o <<last>> \o after

\* ------------------------------------------------------------------------
\* Compaction engine: anchor selection
\* ------------------------------------------------------------------------

RECURSIVE UserTurnScan(_, _, _, _)
UserTurnScan(evs, i, seenUsers, minUserTurns) ==
    IF i < 1
    THEN IF Len(evs) > 0 THEN evs[1].index ELSE 0
    ELSE IF evs[i].type # "user_msg"
         THEN UserTurnScan(evs, i - 1, seenUsers, minUserTurns)
         ELSE IF seenUsers + 1 >= minUserTurns
              THEN evs[i].index
              ELSE UserTurnScan(evs, i - 1, seenUsers + 1, minUserTurns)

findRecentUserTurnBoundary(evs, minUserTurns) ==
    IF minUserTurns <= 0
    THEN IF Len(evs) > 0 THEN evs[1].index ELSE 0
    ELSE UserTurnScan(evs, Len(evs), 0, minUserTurns)

\* Variant: the later of the two boundaries is kept instead of the earlier.
findMinimumRecentStart_Later(evs) ==
    IF Len(evs) = 0
    THEN 0
    ELSE LET firstIndex == evs[1].index
             keepByCount == evs[Max(0, Len(evs) - MIN_RECENT_EVENTS) + 1].index
             keepByUserTurns == findRecentUserTurnBoundary(evs, MIN_RECENT_USER_TURNS)
         IN  Max(firstIndex, Max(keepByCount, keepByUserTurns))

findMinimumRecentStart(evs) ==
    IF Len(evs) = 0
    THEN 0
    ELSE LET firstIndex == evs[1].index
             keepByCount == evs[Max(0, Len(evs) - MIN_RECENT_EVENTS) + 1].index
             keepByUserTurns == findRecentUserTurnBoundary(evs, MIN_RECENT_USER_TURNS)
         IN  Max(firstIndex, Min(keepByCount, keepByUserTurns))

maxAnchorCandidate(evs, anchorBefore) ==
    IF Len(evs) = 0
    THEN anchorBefore
    ELSE Max(anchorBefore, findMinimumRecentStart(evs))

selectForcedAnchorBoundary(evs, anchorBefore) ==
    maxAnchorCandidate(evs, Max(anchorBefore, 0))

\* Variant: a candidate fits only when its estimate is below the target.
RECURSIVE AnchorScan_BelowTarget(_, _, _, _, _, _)
AnchorScan_BelowTarget(evs, candidate, maxCandidate, summaryState, targetLimit, pinnedTokenEstimate) ==
    IF candidate > maxCandidate
    THEN maxCandidate
    ELSE IF estimateCompactionContextTokens(summaryState, evs, candidate,
                                            pinnedTokenEstimate) < targetLimit
         THEN candidate
         ELSE AnchorScan_BelowTarget(evs, candidate + 1, maxCandidate, summaryState,
                                     targetLimit, pinnedTokenEstimate)

RECURSIVE AnchorScan(_, _, _, _, _, _)
AnchorScan(evs, candidate, maxCandidate, summaryState, targetLimit, pinnedTokenEstimate) ==
    IF candidate > maxCandidate
    THEN maxCandidate
    ELSE IF estimateCompactionContextTokens(summaryState, evs, candidate,
                                            pinnedTokenEstimate) <= targetLimit
         THEN candidate
         ELSE AnchorScan(evs, candidate + 1, maxCandidate, summaryState, targetLimit,
                         pinnedTokenEstimate)

selectAnchorBoundary(evs, anchorBefore, summaryState, targetLimit, pinnedTokenEstimate) ==
    IF Len(evs) = 0
    THEN anchorBefore
    ELSE LET candidate == Max(anchorBefore, 0)
         IN  AnchorScan(evs, candidate, maxAnchorCandidate(evs, candidate), summaryState,
                        targetLimit, pinnedTokenEstimate)

\* A ratio option of the input, in percent; the passes of this model give no
\* highWatermarkRatio / targetRatio override.
NoRatio == [isNumber |-> FALSE, percent |-> 0]

normalizeRatio(value, fallback) ==
    IF ~value.isNumber THEN fallback ELSE Min(99, Max(10, value.percent))

\* Math.max(1, Math.floor(window * ratio))
RatioLimit(window, ratio) == Max(1, (window * ratio) \div 100)

\* Variant: a context exactly at the high watermark counts as over budget.
OverBudget_Inclusive(estimatedBefore, highWatermarkLimit) ==
    estimatedBefore >= highWatermarkLimit

OverBudget(estimatedBefore, highWatermarkLimit) == estimatedBefore > highWatermarkLimit

\* ------------------------------------------------------------------------
\* Compaction engine: one pass
\* ------------------------------------------------------------------------

\* CompactionReason is "manual" | "auto" | "provider_switch"; the engine only
\* tests the reason against "provider_switch" and echoes it, so "manual" stands
\* for both of the others.
CompactionReasons == {"manual", "provider_switch"}

ForceInputs == {"undefined", "true"}

\* With this window the high-watermark limit is 9 and the target limit 6, which
\* the logs of this model stay under, reach exactly, and exceed.
ModelContextWindows == {12}

PinnedTokenEstimates == {1}

\* What the summariser callback may answer for a delta: the old summary as it
\* is, or the old summary with one more progress entry.
SummarizerAnswers == {"unchanged", "progress"}

summarizeDelta(answer, oldSummaryState, deltaEvents) ==
    IF answer = "unchanged"
    THEN oldSummaryState
    ELSE IF answer = "rewritten"
    THEN SummaryState("", <<"C">>, "now")
    ELSE [oldSummaryState EXCEPT !.progress = Append(@, "B"),
                                 !.updated_at_iso = "now"]

AnchoredCompactionResult(compressed, reason, estimatedBefore, estimatedAfter, window, highWatermarkLimit, targetLimit, anchorBefore, anchorAfter, deltaEventCount, summaryState) ==
    [compressed |-> compressed, reason |-> reason,
     estimated_tokens_before |-> estimatedBefore,
     estimated_tokens_after |-> estimatedAfter,
     model_context_window |-> window,
     high_watermark_limit |-> highWatermarkLimit,
     target_limit |-> targetLimit,
     anchor_event_index_before |-> anchorBefore,
     anchor_event_index_after |-> anchorAfter,
     delta_event_count |-> deltaEventCount,
     summary_state |-> summaryState]

\* runAnchoredCompaction: its result, and what it handed to the summariser
\* (calls: how often it invoked the callback; delta: the indices it passed).
runAnchoredCompaction(input) ==
    LET evs == SortByIndex(input.events)
        highRatio == normalizeRatio(input.highWatermarkRatio, HIGH_WATERMARK_RATIO)
        targetRatio == normalizeRatio(input.targetRatio, TARGET_RATIO)
        highWatermarkLimit == RatioLimit(input.modelContextWindowTokens, highRatio)
        targetLimit == RatioLimit(input.modelContextWindowTokens, targetRatio)
        anchorBefore == Max(0, input.lastAnchorEventIndex)
        startSummary == input.summaryState
        estimatedBefore == estimateCompactionContextTokens(startSummary, evs, anchorBefore,
                                                           input.pinnedTokenEstimate)
        overBudget == OverBudget(estimatedBefore, highWatermarkLimit)
        mustRun == input.force = "true" \/ input.reason = "provider_switch"
        newAnchor ==
            IF mustRun
            THEN selectForcedAnchorBoundary(evs, anchorBefore)
            ELSE selectAnchorBoundary(evs, anchorBefore, startSummary, targetLimit,
                                      input.pinnedTokenEstimate)
        unchanged ==
            [result |-> AnchoredCompactionResult(FALSE, input.reason, estimatedBefore,
                            estimatedBefore, input.modelContextWindowTokens,
                            highWatermarkLimit, targetLimit, anchorBefore, anchorBefore,
                            0, startSummary),
             calls |-> 0, delta |-> <<>>]
    IN  IF ~overBudget /\ ~mustRun
        THEN unchanged
        ELSE IF newAnchor <= anchorBefore
             THEN IF mustRun
                  THEN LET candidateSummary == summarizeDelta(input.answer, startSummary, <<>>)
                           mergedSummary == mergeSummaryStates(startSummary,
                                                               candidateSummary, "now")
                           estimatedAfter == estimateCompactionContextTokens(
                               mergedSummary, evs, anchorBefore, input.pinnedTokenEstimate)
                       IN  [result |-> AnchoredCompactionResult(TRUE, input.reason,
                                          estimatedBefore, estimatedAfter,
                                          input.modelContextWindowTokens,
                                          highWatermarkLimit, targetLimit, anchorBefore,
                                          anchorBefore, 0, mergedSummary),
                            calls |-> 1, delta |-> <<>>]
                  ELSE unchanged
             ELSE LET deltaEvents == SelectSeq(evs, LAMBDA event :
                                         event.index >= anchorBefore
                                           /\ event.index < newAnchor)
                      candidateSummary == summarizeDelta(input.answer, startSummary,
                                                         deltaEvents)
                      mergedSummary == mergeSummaryStates(startSummary, candidateSummary,
                                                          "now")
                      estimatedAfter == estimateCompactionContextTokens(
                          mergedSummary, evs, newAnchor, input.pinnedTokenEstimate)
                  IN  [result |-> AnchoredCompactionResult(TRUE, input.reason,
                                     estimatedBefore, estimatedAfter,
                                     input.modelContextWindowTokens, highWatermarkLimit,
                                     targetLimit, anchorBefore, newAnchor,
                                     Len(deltaEvents), mergedSummary),
                       calls |-> 1,
                       delta |-> [i \in 1..Len(deltaEvents) |-> deltaEvents[i].index]]

AnchoredCompactionInput(reason, force, window, pinned, answer) ==
    [reason |-> reason, events |-> events,
     lastAnchorEventIndex |-> compState.last_anchor_event_index,
     summaryState |-> compState.summary_state,
     modelContextWindowTokens |-> window, pinnedTokenEstimate |-> pinned,
     highWatermarkRatio |-> NoRatio, targetRatio |-> NoRatio,
     force |-> force, answer |-> answer]

NoResult ==
    AnchoredCompactionResult(FALSE, "none", 0, 0, 0, 0, 0, 0, 0, 0,
                             createEmptySummaryState("t0"))

\* compResult before the first pass.
NoPass ==
    [call |-> 0, force |-> "undefined", pinned |-> 0, summarizerCalls |-> 0,
     delta |-> <<>>, result |-> NoResult]

\* The persisted state as loadCompactionState returns it: any stored anchor,
\* with an empty or a non-empty summary.
LoadedAnchors == 0..(MaxEvents + MaxFirstIndex)

LoadedSummaries == {createEmptySummaryState("t0"), SummaryState("", <<"a">>, "t0")}

InitCompVars ==
    /\ events = <<>>
    /\ \E anchor \in LoadedAnchors, summary \in LoadedSummaries :
           compState = [last_anchor_event_index |-> anchor, summary_state |-> summary]
    /\ compResult = NoPass

\* The turn loop records one more event; indices are strictly increasing. The
\* result of the pass before it has been consumed by then.
AppendCompactionEvent(firstIndex, type) ==
    /\ Len(events) < MaxEvents
    /\ events' = Append(events,
           CompactEvent(IF Len(events) = 0 THEN firstIndex
                        ELSE events[Len(events)].index + 1, type))
    /\ compResult' = [NoPass EXCEPT !.call = compResult.call]
    /\ UNCHANGED <<compState, nonCompVars>>

\* One compaction pass on the session: the pass runs on the persisted anchor
\* and summary, and its anchor_event_index_after and summary_state become the
\* persisted state the next pass starts from.
CompactionPass(reason, force, window, pinned, answer) ==
    \E out \in {runAnchoredCompaction(
                    AnchoredCompactionInput(reason, force, window, pinned, answer))} :
        /\ compResult' = [call |-> 1 - compResult.call, force |-> force,
                          pinned |-> pinned,
                          summarizerCalls |-> out.calls, delta |-> out.delta,
                          result |-> out.result]
        /\ compState' = [last_anchor_event_index |-> out.result.anchor_event_index_after,
                         summary_state |-> out.result.summary_state]
        /\ UNCHANGED <<events, nonCompVars>>

NextCompact ==
    \/ \E firstIndex \in 0..MaxFirstIndex, type \in EventTypes :
           AppendCompactionEvent(firstIndex, type)
    \/ \E reason \in CompactionReasons, force \in ForceInputs,
          window \in ModelContextWindows, pinned \in PinnedTokenEstimates,
          answer \in SummarizerAnswers :
           CompactionPass(reason, force, window, pinned, answer)

IdleCompVars ==
    /\ events = <<>>
    /\ compState = [last_anchor_event_index |-> 0,
                    summary_state |-> createEmptySummaryState("t0")]
    /\ compResult = NoPass

\* ------------------------------------------------------------------------
\* Compaction engine: properties
\* ------------------------------------------------------------------------

\* A step that is one compaction pass.
PassStep == compResult'.call # compResult.call

TailFrom(anchor) == SelectSeq(events, LAMBDA event : event.index >= anchor)

UserMessages(evs) == SelectSeq(evs, LAMBDA event : event.type = "user_msg")

\* The events from anchor on include MIN_RECENT_EVENTS events (or all events)
\* and MIN_RECENT_USER_TURNS user_msg events (or all user_msg events).
RecencyKept(anchor) ==
    /\ Len(TailFrom(anchor)) >= Min(MIN_RECENT_EVENTS, Len(events))
    /\ Len(UserMessages(TailFrom(anchor)))
         >= Min(MIN_RECENT_USER_TURNS, Len(UserMessages(events)))

\* C2 as stated: after any compaction pass, for any starting anchor and any
\* event list, the events with index >= anchor_event_index_after include at
\* least MIN_RECENT_EVENTS events (or all events) and at least
\* MIN_RECENT_USER_TURNS user_msg events (or all user_msg events).
C2_TailKeepsMinimumRecent ==
    [][PassStep => RecencyKept(compResult'.result.anchor_event_index_after)]_vars

\* C2 amended: a compaction pass never moves the anchor backwards; when the
\* events from the starting anchor on meet the recency minimum, so do the
\* events from anchor_event_index_after on; when they do not, the starting
\* anchor lies past the recency boundary and the pass leaves it where it is.
C2_TailKeepsMinimumRecentFromKeptStart ==
    [][PassStep =>
         LET before == compResult'.result.anchor_event_index_before
             after == compResult'.result.anchor_event_index_after
         IN  /\ before = Max(0, compState.last_anchor_event_index)
             /\ after >= before
             /\ RecencyKept(before) => RecencyKept(after)
             /\ ~RecencyKept(before) => after = before]_vars

\* C2 witness: a pass has moved the anchor forward over a log longer than the
\* recency minimum and has stopped exactly at the recency boundary.
C2_Witness ==
    /\ compResult.result.compressed
    /\ compResult.result.anchor_event_index_after
         > compResult.result.anchor_event_index_before
    /\ Len(events) > MIN_RECENT_EVENTS
    /\ Len(UserMessages(events)) > MIN_RECENT_USER_TURNS
    /\ RecencyKept(compResult.result.anchor_event_index_after)
    /\ ~RecencyKept(compResult.result.anchor_event_index_after + 1)

\* The estimate C3 speaks of, from the state the pass starts in: the pinned
\* overhead, the summary message and the events from the anchor on.
ContextEstimate(pinned) ==
    pinned
      + estimateHistoryTokens(
            IF buildSummaryMessage(compState.summary_state) = NullMessage
            THEN <<>> ELSE <<buildSummaryMessage(compState.summary_state)>>)
      + estimateHistoryTokens(
            toChatMessages(TailFrom(Max(0, compState.last_anchor_event_index))))

\* C3: a pass with reason other than provider_switch and force not true whose
\* estimate (pinned + summary + events from the anchor) does not exceed the
\* high-watermark limit returns compressed = false, the anchor it started
\* from, delta_event_count 0 and the input summary verbatim, and does not
\* invoke the summariser.
C3_UnderWatermarkLeavesStateAlone ==
    [][(/\ PassStep
        /\ compResult'.result.reason # "provider_switch"
        /\ compResult'.force # "true"
        /\ \/ ContextEstimate(compResult'.pinned)
                <= compResult'.result.high_watermark_limit
           \/ compResult'.result.estimated_tokens_before
                <= compResult'.result.high_watermark_limit)
       => /\ compResult'.result.compressed = FALSE
          /\ compResult'.result.anchor_event_index_after
               = Max(0, compState.last_anchor_event_index)
          /\ compResult'.result.anchor_event_index_after
               = compResult'.result.anchor_event_index_before
          /\ compResult'.result.delta_event_count = 0
          /\ compResult'.result.summary_state = compState.summary_state
          /\ compResult'.summarizerCalls = 0
          /\ compState' = compState]_vars

\* C3 witness: an unforced pass ran with the estimate exactly at the
\* high-watermark limit, over a non-empty summary and a log long enough for
\* the anchor to have room to move, and left everything as it was.
C3_Witness ==
    /\ compResult.result.reason = "manual"
    /\ compResult.force = "undefined"
    /\ compResult.result.estimated_tokens_before
         = compResult.result.high_watermark_limit
    /\ ~isSummaryEffectivelyEmpty(compResult.result.summary_state)
    /\ findMinimumRecentStart(events) > compResult.result.anchor_event_index_before
    /\ compResult.result.compressed = FALSE
    /\ compResult.summarizerCalls = 0

\* The candidates of a pass that starts at anchor `before`: the indices from
\* `before` to the upper bound whose estimate, as the engine computes it for
\* the summary the pass starts with, is at most the target limit.
UpperBound(before) == Max(before, findMinimumRecentStart(events))

FittingCandidates(before, pinned, targetLimit) ==
    {c \in before..UpperBound(before) :
        estimateCompactionContextTokens(compState.summary_state, events, c, pinned)
          <= targetLimit}

MaxIndexGap == 2

\* The turn loop records one more event, or a loaded log continues after a
\* skipped line: indices are strictly increasing, not always by one.
AppendCompactionEventAfterGap(firstIndex, gap, type) ==
    /\ Len(events) < MaxEvents
    /\ events' = Append(events,
           CompactEvent(IF Len(events) = 0 THEN firstIndex
                        ELSE events[Len(events)].index + gap, type))
    /\ compResult' = [NoPass EXCEPT !.call = compResult.call]
    /\ UNCHANGED <<compState, nonCompVars>>

\* The summariser of these passes adds a progress entry to the old summary
\* or writes a summary of its own that repeats nothing of the old one.
PassAnswers == {"progress", "rewritten"}

InitPassesVars ==
    /\ events = <<>>
    /\ \E summary \in LoadedSummaries :
           compState = [last_anchor_event_index |-> 0, summary_state |-> summary]
    /\ compResult = NoPass

NextPasses ==
    \/ \E firstIndex \in 0..MaxFirstIndex, gap \in 1..MaxIndexGap :
           AppendCompactionEventAfterGap(firstIndex, gap, "user_msg")
    \/ \E force \in ForceInputs, window \in ModelContextWindows,
          pinned \in PinnedTokenEstimates, answer \in PassAnswers :
           CompactionPass("manual", force, window, pinned, answer)

\* The indices of the events of the log with from <= index < to.
IndicesBetween(from, to) ==
    LET picked == SelectSeq(events, LAMBDA event : event.index >= from /\ event.index < to)
    IN  [i \in 1..Len(picked) |-> picked[i].index]

\* C23: a pass starts from the anchor and summary the pass before it left;
\* its anchor is never lower than the one it started from; what it hands to
\* the summariser is exactly the events with anchorBefore <= index <
\* newAnchor, and delta_event_count is their number (so no event at or past
\* the new anchor, and none below the old one, is summarised again); the
\* entries of the previous summary's lists are still in the new summary, in
\* their order.
C23_DeltaOnlyPasses ==
    [][PassStep =>
         LET result == compResult'.result
             before == result.anchor_event_index_before
             after == result.anchor_event_index_after
             previous == compState.summary_state.progress
         IN  /\ before = compState.last_anchor_event_index
             /\ after >= before
             /\ compState'.last_anchor_event_index = after
             /\ compState'.summary_state = result.summary_state
             /\ compResult'.delta = IndicesBetween(before, after)
             /\ result.delta_event_count = Len(IndicesBetween(before, after))
             /\ compResult'.summarizerCalls = 0 => after = before
             /\ Len(result.summary_state.progress) >= Len(previous)
             /\ \A i \in 1..Len(previous) : result.summary_state.progress[i] = previous[i]]_vars

\* A later pass over a log with a gap: it started from an anchor an earlier
\* pass had set, summarised a non-empty delta, and its summary holds the
\* entry the summary had before the first pass, the entry the earlier pass
\* added and the one this pass added, although this summariser repeated
\* nothing.
C23_Witness ==
    /\ compResult.result.anchor_event_index_before > 0
    /\ compResult.result.anchor_event_index_after > compResult.result.anchor_event_index_before
    /\ compResult.result.delta_event_count > 0
    /\ compResult.result.summary_state.progress = <<"a", "B", "C">>
    /\ \E i \in 1..(Len(events) - 1) : events[i + 1].index > events[i].index + 1

\* The context the turn loop builds from the persisted summary and anchor.
ModelContext ==
    buildModelContextMessages(compState.summary_state, events, compState.last_anchor_event_index)

\* C24: over a log with strictly increasing indices, not necessarily from 0
\* or contiguous, buildModelContextMessages returns the summary message
\* (iff the summary is not effectively empty) followed, in index order, by
\* the chat projections of exactly the events with index >= anchor.
C24_ContextIsSummaryThenEventsFromAnchor ==
    LET kept == SelectSeq(events, LAMBDA event : event.index >= compState.last_anchor_event_index)
        projections == [i \in 1..Len(kept) |-> compactEventToChatMessage(kept[i])]
        summaryMessage == buildSummaryMessage(compState.summary_state)
    IN  /\ (summaryMessage # NullMessage) = ~isSummaryEffectivelyEmpty(compState.summary_state)
        /\ ModelContext = (IF isSummaryEffectivelyEmpty(compState.summary_state)
                           THEN <<>> ELSE <<summaryMessage>>) \o projections

\* ------------------------------------------------------------------------
\* Compaction engine: a pass whose summariser asks the model
\* ------------------------------------------------------------------------

\* Variant: the second call is made only when it was asked for.
retryEnabled_OnlyWhenAsked(retryOnce) == retryOnce = "true"

\* const retry = params.retryOnce !== false
retryEnabled(retryOnce) == retryOnce # "false"

\* What the model may answer: text that parses to a summary ("progress"),
\* text that does not, or a rejected promise.
ModelResponses == {"progress", "garbage", "rejects"}

\* parseSummaryStateFromText(text) is not null.
Parses(response) == response \in {"progress", "rewritten"}

SummarizeCall(phase, retryOnce, prompts, responses, input) ==
    [phase |-> phase, retryOnce |-> retryOnce, prompts |-> prompts, responses |-> responses, input |-> input]

PassOutcome(call, status, result, inputsBefore, inputsAfter) ==
    [call |-> call, status |-> status, result |-> result, inputsBefore |-> inputsBefore, inputsAfter |-> inputsAfter]

PassInputs == [events |-> events, state |-> compState]

NoPassInput ==
    [reason |-> "none", events |-> <<>>, lastAnchorEventIndex |-> 0,
     summaryState |-> createEmptySummaryState("t0"),
     modelContextWindowTokens |-> 0, pinnedTokenEstimate |-> 0,
     highWatermarkRatio |-> NoRatio, targetRatio |-> NoRatio,
     force |-> "undefined", answer |-> "unchanged"]

NoPassInputs ==
    [events |-> <<>>,
     state |-> [last_anchor_event_index |-> 0, summary_state |-> createEmptySummaryState("t0")]]

InitSumVars ==
    /\ summarizeCall = SummarizeCall("idle", "undefined", <<>>, <<>>, NoPassInput)
    /\ passOutcome = PassOutcome(0, "none", NoResult, NoPassInputs, NoPassInputs)

IdleSumVars ==
    /\ summarizeCall = SummarizeCall("idle", "undefined", <<>>, <<>>, NoPassInput)
    /\ passOutcome = PassOutcome(0, "none", NoResult, NoPassInputs, NoPassInputs)

\* runAnchoredCompaction up to its first await: a pass that needs no summary
\* resolves at once; otherwise input.summarizeDelta, which is
\* summarizeDeltaWithModel, sends the primary prompt to the model.
PassBegin(force, retryOnce) ==
    LET input == AnchoredCompactionInput("manual", force, 12, 1, "unchanged")
        out == runAnchoredCompaction(input)
    IN  /\ summarizeCall.phase \notin {"first", "second"}
        /\ IF out.calls = 0
           THEN /\ summarizeCall' = SummarizeCall("idle", retryOnce, <<>>, <<>>, input)
                /\ passOutcome' = PassOutcome(1 - passOutcome.call, "resolved", out.result, PassInputs, PassInputs)
           ELSE /\ summarizeCall' = SummarizeCall("first", retryOnce, <<"primary">>, <<>>, input)
                /\ passOutcome' = PassOutcome(1 - passOutcome.call, "pending", NoResult, PassInputs, PassInputs)
        /\ UNCHANGED <<compVars, nonCompSumVars>>

\* The model's answer arrives. A summary that parses lets the pass resolve
\* and the caller store its anchor and summary; text that does not parse
\* leads to the JSON-only prompt or to the throw; the throw rejects the pass.
ModelResponds(response) ==
    LET responses == Append(summarizeCall.responses, response)
        askAgain == /\ summarizeCall.phase = "first"
                    /\ response = "garbage"
                    /\ retryEnabled(summarizeCall.retryOnce)
        out == runAnchoredCompaction([summarizeCall.input EXCEPT !.answer = response])
    IN  /\ summarizeCall.phase \in {"first", "second"}
        /\ IF Parses(response)
           THEN /\ summarizeCall' = [summarizeCall EXCEPT !.phase = "returned", !.responses = responses]
                /\ passOutcome' = [passOutcome EXCEPT !.status = "resolved", !.result = out.result, !.inputsAfter = PassInputs]
                /\ compState' = [last_anchor_event_index |-> out.result.anchor_event_index_after,
                                 summary_state |-> out.result.summary_state]
           ELSE IF askAgain
           THEN /\ summarizeCall' = [summarizeCall EXCEPT !.phase = "second", !.responses = responses,
                                                          !.prompts = Append(@, "json_only")]
                /\ UNCHANGED <<passOutcome, compState>>
           ELSE /\ summarizeCall' = [summarizeCall EXCEPT !.phase = "thrown", !.responses = responses]
                /\ passOutcome' = [passOutcome EXCEPT !.status = "rejected", !.inputsAfter = PassInputs]
                /\ UNCHANGED compState
        /\ UNCHANGED <<events, compResult, nonCompSumVars>>

\* The turn loop records events between passes.
RecordEvent(type) ==
    /\ summarizeCall.phase \notin {"first", "second"}
    /\ AppendCompactionEvent(0, type)

NextSummarize ==
    \/ \E type \in EventTypes : RecordEvent(type)
    \/ \E force \in ForceInputs, retryOnce \in {"undefined", "false"} :
           PassBegin(force, retryOnce)
    \/ \E response \in ModelResponses : ModelResponds(response)

\* C34: summarizeDeltaWithModel calls the model at most twice, first with
\* the primary prompt and then with the JSON-only prompt, and the second
\* time only if the first response did not parse; it returns the first
\* response that parses; it throws when the second does not parse either,
\* or after the first when retryOnce is false; a pass whose summariser
\* rejects is rejected: it gives no anchor and no summary, and the events
\* and the persisted state it was given are as they were.
C34_SummariserRetriesOnceAndPassRejects ==
    LET prompts == summarizeCall.prompts
        responses == summarizeCall.responses
    IN  /\ Len(prompts) <= 2
        /\ Len(responses) <= Len(prompts)
        /\ Len(prompts) >= 1 => prompts[1] = "primary"
        /\ Len(prompts) = 2 => prompts[2] = "json_only" /\ responses[1] = "garbage"
        /\ summarizeCall.phase = "returned" =>
               /\ Parses(responses[Len(responses)])
               /\ \A i \in 1..(Len(responses) - 1) : ~Parses(responses[i])
               /\ passOutcome.status = "resolved"
               /\ passOutcome.result.summary_state
                    = mergeSummaryStates(summarizeCall.input.summaryState,
                          summarizeDelta(responses[Len(responses)], summarizeCall.input.summaryState, <<>>),
                          "now")
        /\ (Len(responses) = 2 /\ ~Parses(responses[2])) => summarizeCall.phase = "thrown"
        /\ (Len(responses) >= 1 /\ responses[1] = "garbage" /\ summarizeCall.retryOnce = "false") =>
               summarizeCall.phase = "thrown" /\ Len(prompts) = 1
        /\ (Len(responses) = 1 /\ responses[1] = "garbage" /\ summarizeCall.phase = "thrown") =>
               summarizeCall.retryOnce = "false"
        /\ summarizeCall.phase = "thrown" =>
               /\ passOutcome.status = "rejected"
               /\ passOutcome.result = NoResult
               /\ passOutcome.inputsAfter = passOutcome.inputsBefore

\* The model answered both prompts with text that does not parse; the pass,
\* which would have moved the anchor, was rejected.
C34_Witness ==
    /\ summarizeCall.phase = "thrown"
    /\ summarizeCall.prompts = <<"primary", "json_only">>
    /\ summarizeCall.responses = <<"garbage", "garbage">>
    /\ summarizeCall.retryOnce = "undefined"
    /\ passOutcome.status = "rejected"
    /\ Len(passOutcome.inputsBefore.events) = MaxEvents
    /\ selectForcedAnchorBoundary(passOutcome.inputsBefore.events, 0) > 0
    /\ compState.last_anchor_event_index = 0

\* ------------------------------------------------------------------------
\* Summary merges: one artifact list under a sequence of merges
\* ------------------------------------------------------------------------

\* Longest candidate list a summariser answer carries for the list.
MaxCandidateLen == 2

\* Longest list of delta artifacts extracted from the delta events.
MaxDeltaArtifacts == 1

\* Entries as a summariser or an event payload may spell them.
ListItems == {"A", " b", " "}

ItemLists(maxLen) == UNION {[1..n -> ListItems] : n \in 0..maxLen}

\* mergeSummaryStates for one of the five artifact lists: previous and
\* candidate are normalised by normalizeSummaryState, the delta additions by
\* normalizeArtifacts. (The four plain lists are the case deltaArtifacts =
\* <<>>.)
mergeArtifactList(previous, candidate, deltaArtifacts) ==
    appendDedup(appendDedup(normalizeStringList(previous), normalizeStringList(candidate)),
                normalizeStringList(deltaArtifacts))

MergeCall(call, previous, candidate, deltaArtifacts) ==
    [call |-> call, previous |-> previous, candidate |-> candidate,
     deltaArtifacts |-> deltaArtifacts]

NoMergeCall == MergeCall(0, <<>>, <<>>, <<>>)

\* The list of the summary a session starts with: empty, or what an earlier
\* session persisted (loadCompactionState normalises what it reads).
InitMergeVars ==
    /\ summaryList \in {<<>>, <<"c">>, <<"B", "a">>}
    /\ mergeCall = NoMergeCall

IdleMergeVars ==
    /\ summaryList = <<>>
    /\ mergeCall = NoMergeCall

\* One more merge of the rolling summary with a candidate and the delta's
\* artifacts; the result is the previous summary of the next merge.
MergeSummaries(candidate, deltaArtifacts) ==
    /\ summaryList' = mergeArtifactList(summaryList, candidate, deltaArtifacts)
    /\ mergeCall' = MergeCall(1 - mergeCall.call, summaryList, candidate, deltaArtifacts)
    /\ UNCHANGED nonMergeVars

NextMerge ==
    \E candidate \in ItemLists(MaxCandidateLen), deltaArtifacts \in ItemLists(MaxDeltaArtifacts) :
        MergeSummaries(candidate, deltaArtifacts)

\* No two entries of the list are equal ignoring case.
NoCaseDuplicates(list) ==
    \A i, j \in 1..Len(list) : i # j => ToLowerCase(list[i]) # ToLowerCase(list[j])

\* The entries a merge has to add: of candidate followed by deltaArtifacts,
\* those that are not blank, are in previous in no spelling, and occur in no
\* spelling earlier in the incoming entries; in the order they come in.
NewEntries(previous, incoming) ==
    LET fresh(i) ==
            /\ Trim(incoming[i]) # ""
            /\ \A k \in 1..Len(previous) :
                   ToLowerCase(previous[k]) # ToLowerCase(Trim(incoming[i]))
            /\ \A j \in 1..(i - 1) :
                   ToLowerCase(Trim(incoming[j])) # ToLowerCase(Trim(incoming[i]))
        positions == {i \in 1..Len(incoming) : fresh(i)}
        nth[n \in 1..Cardinality(positions)] ==
            CHOOSE i \in positions : Cardinality({j \in positions : j < i}) = n - 1
    IN  [n \in 1..Cardinality(positions) |-> Trim(incoming[nth[n]])]

\* C25: after every merge of a sequence the list has no two entries equal
\* ignoring case, begins with the previous summary's entries in their
\* order, and continues with the new entries, the candidate's before the
\* delta artifacts', in the order of their first insertion.
C25_MergeIsDedupedAppend ==
    /\ NoCaseDuplicates(summaryList)
    /\ mergeCall # NoMergeCall =>
           summaryList = mergeCall.previous
                           \o NewEntries(mergeCall.previous,
                                         mergeCall.candidate \o mergeCall.deltaArtifacts)

\* A merge whose candidate added two entries after the old one, the first
\* stored trimmed, and whose delta artifacts repeated one of them.
C25_Witness ==
    /\ mergeCall.previous = <<"c">>
    /\ mergeCall.candidate = <<" b", "A">>
    /\ mergeCall.deltaArtifacts = <<"A">>
    /\ summaryList = <<"c", "b", "A">>

\* ------------------------------------------------------------------------
\* Compaction storage: the events sidecar and its loader
\* ------------------------------------------------------------------------

\* Most lines the events file holds.
MaxEventLines == 3

\* Largest index an event of the file carries.
MaxLoadIndex == 2

\* A line of the events file: json is "record" for a line that parses to a
\* JSON object and "malformed" for one JSON.parse rejects (a torn append);
\* at_iso is "t1" (an ISO timestamp), or "bad" (a string Date.parse
\* rejects); type is a known event type or "unknown"; payload is "{text}"
\* (a record) or "string" (any JSON value that is no record).
EventLine(json, index, atIso, type, payload) ==
    [json |-> json, index |-> index, at_iso |-> atIso, type |-> type, payload |-> payload]

MalformedLine == EventLine("malformed", 0, "", "", "")

NullEvent == [index |-> 0 - 1, at_iso |-> "", type |-> "", payload |-> ""]

\* readIso: the timestamp in ISO form, "" (null) when it cannot be parsed.
readIso(value) == IF value = "t1" THEN "t1" ELSE ""

allowedTypes == {"user_msg", "assistant_msg"}

normalizeCompactEvent(value) ==
    IF value.json # "record" THEN NullEvent
    ELSE IF value.index < 0 THEN NullEvent
    ELSE IF readIso(value.at_iso) = "" \/ value.type = "" THEN NullEvent
    ELSE IF value.type \notin allowedTypes THEN NullEvent
    ELSE [index |-> value.index, at_iso |-> readIso(value.at_iso), type |-> value.type,
          payload |-> IF value.payload = "{text}" THEN value.payload ELSE "{}"]

RECURSIVE NormalizedLines(_)
NormalizedLines(lines) ==
    IF lines = <<>> THEN <<>>
    ELSE LET normalized == normalizeCompactEvent(Head(lines))
         IN  IF normalized = NullEvent THEN NormalizedLines(Tail(lines))
             ELSE <<normalized>> \o NormalizedLines(Tail(lines))

loadCompactionEvents(file) ==
    IF ~file.exists THEN <<>> ELSE SortByIndex(NormalizedLines(file.lines))

LoadedEvents(call, value) == [call |-> call, events |-> value]

InitLoadVars ==
    /\ eventsJsonl = [exists |-> FALSE, lines |-> <<>>]
    /\ loadedEvents = LoadedEvents(0, <<>>)

IdleLoadVars ==
    /\ eventsJsonl = [exists |-> FALSE, lines |-> <<>>]
    /\ loadedEvents = LoadedEvents(0, <<>>)

\* appendCompactionEvents with one event: its JSON goes to the end of the
\* file, which is created if need be. The event object is the caller's:
\* nothing checks its timestamp, type or payload on the way in.
AppendCompactionEvents(index, atIso, type, payload) ==
    /\ Len(eventsJsonl.lines) < MaxEventLines
    /\ eventsJsonl' = [exists |-> TRUE,
                       lines |-> Append(eventsJsonl.lines,
                                        EventLine("record", index, atIso, type, payload))]
    /\ UNCHANGED <<loadedEvents, nonLoadVars>>

\* The process dies inside appendFileSync: the line is left unfinished.
TornAppend ==
    /\ Len(eventsJsonl.lines) < MaxEventLines
    /\ eventsJsonl' = [exists |-> TRUE, lines |-> Append(eventsJsonl.lines, MalformedLine)]
    /\ UNCHANGED <<loadedEvents, nonLoadVars>>

LoadCompactionEvents ==
    /\ loadedEvents' = LoadedEvents(1 - loadedEvents.call, loadCompactionEvents(eventsJsonl))
    /\ UNCHANGED <<eventsJsonl, nonLoadVars>>

NextLoad ==
    \/ \E index \in 0..MaxLoadIndex, atIso \in {"t1", "bad"}, type \in {"user_msg", "unknown"},
          payload \in {"{text}", "string"} :
           AppendCompactionEvents(index, atIso, type, payload)
    \/ TornAppend
    \/ LoadCompactionEvents

\* What the loader is to return for a line: nothing for a malformed line or
\* an unknown type; otherwise the event, with an unreadable timestamp
\* replaced by the current time and a non-record payload by {}.
RECURSIVE ToleratedLines(_)
ToleratedLines(lines) ==
    IF lines = <<>> THEN <<>>
    ELSE LET line == Head(lines)
         IN  IF line.json = "malformed" \/ line.type = "unknown"
             THEN ToleratedLines(Tail(lines))
             ELSE <<[index |-> line.index,
                     at_iso |-> IF line.at_iso = "bad" THEN "now" ELSE line.at_iso,
                     type |-> line.type,
                     payload |-> IF line.payload = "string" THEN "{}" ELSE line.payload]>>
                    \o ToleratedLines(Tail(lines))

\* C26: a load returns nothing for a missing file; otherwise, in index
\* order, the events of the readable lines of known type, an unreadable
\* timestamp replaced by the current time, a non-record payload by {}, and
\* every other event as it is in the file.
C26_LoadToleratesBadLines ==
    [][loadedEvents'.call # loadedEvents.call =>
         /\ ~eventsJsonl.exists => loadedEvents'.events = <<>>
         /\ eventsJsonl.exists =>
                loadedEvents'.events = SortByIndex(ToleratedLines(eventsJsonl.lines))]_vars

\* ------------------------------------------------------------------------
\* Compaction storage: the state file, the summary mirror, atomic writes
\* ------------------------------------------------------------------------

\* Largest anchor a saved state carries.
MaxSavedAnchor == 2

stateJsonPath == "state.json"

summaryMarkdownPath == "summary.md"

\* Variant: the payload is written straight to the file itself.
tmpPath_InPlace(filePath) == filePath

\* `${filePath}.tmp`
tmpPath(filePath) == filePath \o ".tmp"

FilePaths == {stateJsonPath, summaryMarkdownPath, stateJsonPath \o ".tmp", summaryMarkdownPath \o ".tmp"}

\* What a file holds: nothing ("absent"), the beginning of a payload that
\* writeFileSync has not finished ("partial"), or a whole payload: the JSON
\* of a persisted state, or the rendering of a summary (anchor 0).
FileContent(kind, anchor, summary) ==
    [kind |-> kind, last_anchor_event_index |-> anchor, summary_state |-> summary]

NoFile == FileContent("absent", 0, createEmptySummaryState("t0"))

PartialFile == FileContent("partial", 0, createEmptySummaryState("t0"))

CompactionPersistedState(anchor, summary) ==
    [last_anchor_event_index |-> anchor, summary_state |-> summary]

createDefaultCompactionPersistedState ==
    CompactionPersistedState(0, createEmptySummaryState("t0"))

\* loadCompactionState on the content of the state file. The JSON of a
\* partial payload does not parse.
loadCompactionState(content) ==
    IF content.kind # "complete"
    THEN createDefaultCompactionPersistedState
    ELSE CompactionPersistedState(
             IF content.last_anchor_event_index >= 0 THEN content.last_anchor_event_index
             ELSE 0,
             normalizeSummaryState(content.summary_state))

\* fs.renameSync(from, to)
RenameSync(files, from, to) ==
    IF from = to THEN files ELSE [files EXCEPT ![to] = files[from], ![from] = NoFile]

SaveOp(op, path, payload, previous) ==
    [op |-> op, path |-> path, payload |-> payload, previous |-> previous]

NoSaveOp == SaveOp("none", "", NoFile, NoFile)

StateSave(outcome, given, previous) ==
    [outcome |-> outcome, given |-> given, previous |-> previous]

NoStateSave == StateSave("none", createDefaultCompactionPersistedState, NoFile)

LoadedState(call, state, after) == [call |-> call, state |-> state, after |-> after]

InitStoreVars ==
    /\ fileSystem = [p \in FilePaths |-> NoFile]
    /\ saveOp = NoSaveOp
    /\ lastStateSave = NoStateSave
    /\ loadedState = LoadedState(0, createDefaultCompactionPersistedState, NoStateSave)

IdleStoreVars ==
    /\ fileSystem = [p \in FilePaths |-> NoFile]
    /\ saveOp = NoSaveOp
    /\ lastStateSave = NoStateSave
    /\ loadedState = LoadedState(0, createDefaultCompactionPersistedState, NoStateSave)

\* saveCompactionState up to the point where writeFileSync has opened the
\* .tmp file: the state is normalised and the .tmp file truncated.
SaveCompactionState(state) ==
    LET normalized == FileContent("complete", Max(0, state.last_anchor_event_index),
                                  normalizeSummaryState(state.summary_state))
    IN  /\ saveOp = NoSaveOp
        /\ saveOp' = SaveOp("write", stateJsonPath, normalized, fileSystem[stateJsonPath])
        /\ fileSystem' = [fileSystem EXCEPT ![tmpPath(stateJsonPath)] = PartialFile]
        /\ lastStateSave' = StateSave("running", state, fileSystem[stateJsonPath])
        /\ UNCHANGED <<loadedState, nonStoreVars>>

\* saveCompactionSummaryMirror up to the same point.
SaveCompactionSummaryMirror(summaryState) ==
    LET rendered == FileContent("complete", 0, normalizeSummaryState(summaryState))
    IN  /\ saveOp = NoSaveOp
        /\ saveOp' = SaveOp("write", summaryMarkdownPath, rendered, fileSystem[summaryMarkdownPath])
        /\ fileSystem' = [fileSystem EXCEPT ![tmpPath(summaryMarkdownPath)] = PartialFile]
        /\ UNCHANGED <<lastStateSave, loadedState, nonStoreVars>>

\* writeAtomicText: writeFileSync has written the whole payload to .tmp.
WriteTmpFile ==
    /\ saveOp.op = "write"
    /\ fileSystem' = [fileSystem EXCEPT ![tmpPath(saveOp.path)] = saveOp.payload]
    /\ saveOp' = [saveOp EXCEPT !.op = "rename"]
    /\ UNCHANGED <<lastStateSave, loadedState, nonStoreVars>>

\* writeAtomicText: renameSync(tmpPath, filePath); the save returns.
RenameTmpFile ==
    /\ saveOp.op = "rename"
    /\ fileSystem' = RenameSync(fileSystem, tmpPath(saveOp.path), saveOp.path)
    /\ saveOp' = NoSaveOp
    /\ lastStateSave' = IF saveOp.path = stateJsonPath
                        THEN [lastStateSave EXCEPT !.outcome = "completed"]
                        ELSE lastStateSave
    /\ UNCHANGED <<loadedState, nonStoreVars>>

\* The process dies between two file-system calls of a save; the files
\* stay as they are.
SaveCrash ==
    /\ saveOp # NoSaveOp
    /\ saveOp' = NoSaveOp
    /\ lastStateSave' = IF saveOp.path = stateJsonPath
                        THEN [lastStateSave EXCEPT !.outcome = "crashed"]
                        ELSE lastStateSave
    /\ UNCHANGED <<fileSystem, loadedState, nonStoreVars>>

\* loadCompactionState, by this process between saves or by the next one.
LoadCompactionState ==
    /\ saveOp = NoSaveOp
    /\ loadedState' = LoadedState(1 - loadedState.call,
                                  loadCompactionState(fileSystem[stateJsonPath]),
                                  lastStateSave)
    /\ UNCHANGED <<fileSystem, saveOp, lastStateSave, nonStoreVars>>

SavedSummaries == {createEmptySummaryState("t0"), SummaryState("goal", <<"a", "B">>, "t0")}

\* The states the engine saves: an anchor with the summary of that pass.
SavedStates ==
    {CompactionPersistedState(1, createEmptySummaryState("t0")),
     CompactionPersistedState(MaxSavedAnchor, SummaryState("goal", <<"a", "B">>, "t0"))}

NextStore ==
    \/ \E state \in SavedStates : SaveCompactionState(state)
    \/ \E summary \in SavedSummaries : SaveCompactionSummaryMirror(summary)
    \/ WriteTmpFile
    \/ RenameTmpFile
    \/ SaveCrash
    \/ LoadCompactionState

\* C27: the state file and the summary mirror never hold part of a payload;
\* while a save is under way, and after it crashed, the file holds the
\* whole content it had before the save or the whole new content; a load
\* after a completed save returns the saved anchor and summary.
C27_SaveIsAtomic ==
    /\ \A p \in {stateJsonPath, summaryMarkdownPath} : fileSystem[p].kind # "partial"
    /\ saveOp # NoSaveOp => fileSystem[saveOp.path] \in {saveOp.previous, saveOp.payload}
    /\ loadedState.after.outcome = "completed" =>
           /\ loadedState.state.last_anchor_event_index
                = loadedState.after.given.last_anchor_event_index
           /\ loadedState.state.summary_state = loadedState.after.given.summary_state
    /\ loadedState.after.outcome = "crashed" =>
           loadedState.state \in
               {loadCompactionState(loadedState.after.previous), loadedState.after.given}

\* A state save crashed after it had begun to write its .tmp file; the
\* load that followed returned the state the save before it had stored.
C27_Witness ==
    /\ loadedState.after.outcome = "crashed"
    /\ fileSystem[tmpPath(stateJsonPath)].kind = "partial"
    /\ loadedState.after.given.last_anchor_event_index = 1
    /\ loadedState.state.last_anchor_event_index = MaxSavedAnchor
    /\ loadedState.state.summary_state.intent = "goal"
    /\ fileSystem[summaryMarkdownPath].kind = "complete"

\* ------------------------------------------------------------------------
\* Patch applier: line comparison
\* ------------------------------------------------------------------------

\* A line is a sequence of characters. "U+2013" (en dash), "U+2019" (right
\* single quote), "U+201C" (left double quote) and "U+00A0" (no-break space)
\* stand for the classes of characters normalizePatchComparison folds.
WhiteSpace == {" ", "U+00A0"}

RECURSIVE trimEnd(_)
trimEnd(value) ==
    IF value # <<>> /\ value[Len(value)] \in WhiteSpace
    THEN trimEnd(SubSeq(value, 1, Len(value) - 1))
    ELSE value

RECURSIVE trimStart(_)
trimStart(value) ==
    IF value # <<>> /\ Head(value) \in WhiteSpace
    THEN trimStart(Tail(value))
    ELSE value

trim(value) == trimStart(trimEnd(value))

normalizePatchComparison(value) ==
    [i \in 1..Len(trim(value)) |->
        LET char == trim(value)[i]
        IN  IF char = "U+2013" THEN "-"
            ELSE IF char = "U+2019" THEN "'"
            ELSE IF char = "U+201C" THEN "\""
            ELSE IF char = "U+00A0" THEN " "
            ELSE char]

matchesPattern(lines, pattern, start, mode) ==
    \A index \in 0..(Len(pattern) - 1) :
        LET line == IF start + index < Len(lines) THEN lines[start + index + 1] ELSE <<>>
            expected == pattern[index + 1]
        IN  /\ mode = "exact" => line = expected
            /\ mode = "trim_end" => trimEnd(line) = trimEnd(expected)
            /\ mode = "trim" => trim(line) = trim(expected)
            /\ mode = "normalize" =>
                   normalizePatchComparison(line) = normalizePatchComparison(expected)

\* seekSequence's null.
NotFound == -1

\* Variant: the loop keeps the last index at which the pattern matches.
SeekLoop_LastHit(lines, pattern, fromIndex, maxStart, mode) ==
    LET hits == {i \in fromIndex..maxStart : matchesPattern(lines, pattern, i, mode)}
    IN  IF hits = {} THEN NotFound
        ELSE CHOOSE i \in hits : \A j \in hits : i >= j

\* One of seekSequence's four loops: the first index from fromIndex to
\* maxStart at which the pattern matches in the given mode.
SeekLoop(lines, pattern, fromIndex, maxStart, mode) ==
    LET hits == {i \in fromIndex..maxStart : matchesPattern(lines, pattern, i, mode)}
    IN  IF hits = {} THEN NotFound
        ELSE CHOOSE i \in hits : \A j \in hits : i <= j

RECURSIVE SeekLoops(_, _, _, _, _)
SeekLoops(lines, pattern, fromIndex, maxStart, modes) ==
    IF modes = <<>>
    THEN NotFound
    ELSE LET hit == SeekLoop(lines, pattern, fromIndex, maxStart, Head(modes))
         IN  IF hit # NotFound THEN hit
             ELSE SeekLoops(lines, pattern, fromIndex, maxStart, Tail(modes))

\* Variant: the trim-end loop runs before the exact loop.
seekSequence_TrimEndFirst(lines, pattern, start, eof) ==
    IF Len(pattern) = 0 THEN start
    ELSE IF Len(pattern) > Len(lines) THEN NotFound
    ELSE LET maxStart == Len(lines) - Len(pattern)
             searchStart == IF eof /\ Len(lines) >= Len(pattern)
                            THEN Len(lines) - Len(pattern) ELSE start
         IN  IF searchStart > maxStart THEN NotFound
             ELSE SeekLoops(lines, pattern, Max(0, searchStart), maxStart,
                            <<"trim_end", "exact", "trim", "normalize">>)

seekSequence(lines, pattern, start, eof) ==
    IF Len(pattern) = 0 THEN start
    ELSE IF Len(pattern) > Len(lines) THEN NotFound
    ELSE LET maxStart == Len(lines) - Len(pattern)
             searchStart == IF eof /\ Len(lines) >= Len(pattern)
                            THEN Len(lines) - Len(pattern) ELSE start
         IN  IF searchStart > maxStart THEN NotFound
             ELSE SeekLoops(lines, pattern, Max(0, searchStart), maxStart,
                            <<"exact", "trim_end", "trim", "normalize">>)

\* ------------------------------------------------------------------------
\* Patch applier: replacements
\* ------------------------------------------------------------------------

ReplacementRecord(startIndex, oldLength, newLines) ==
    [startIndex |-> startIndex, oldLength |-> oldLength, newLines |-> newLines]

\* replacements.sort((left, right) => left.startIndex - right.startIndex)
RECURSIVE SortByStartIndex(_)
SortByStartIndex(records) ==
    IF records = <<>>
    THEN <<>>
    ELSE LET sorted == SortByStartIndex(SubSeq(records, 1, Len(records) - 1))
             last == records[Len(records)]
             before == SelectSeq(sorted, LAMBDA r : r.startIndex <= last.startIndex)
             after == SelectSeq(sorted, LAMBDA r : r.startIndex > last.startIndex)
         IN  before \o <<last>> \o after

\* Array.prototype.splice(start, deleteCount, ...items) for start >= 0.
Splice(list, start, deleteCount, items) ==
    LET from == Min(start, Len(list))
        count == Max(0, Min(deleteCount, Len(list) - from))
    IN  SubSeq(list, 1, from) \o items \o SubSeq(list, from + count + 1, Len(list))

RECURSIVE ApplyFrom(_, _, _)
ApplyFrom(next, records, i) ==
    IF i < 1
    THEN next
    ELSE ApplyFrom(Splice(next, records[i].startIndex, records[i].oldLength,
                          records[i].newLines),
                   records, i - 1)

applyReplacements(lines, records) == ApplyFrom(lines, records, Len(records))

\* ------------------------------------------------------------------------
\* Patch applier: one update hunk
\* ------------------------------------------------------------------------

LineA == <<"a">>

LineATrailing == <<"a", " ">>

LineALeading == <<" ", "a">>

LineDash == <<"-">>

LineEnDash == <<"U+2013">>

LineEmpty == <<>>

LineX == <<"x">>

\* The lines a file is made of. LineDash occurs in old lines only, where it
\* matches LineEnDash once both are normalised.
FileLineValues == {LineA, LineATrailing, LineALeading, LineEnDash, LineEmpty}

FileInputs == UNION {[1..n -> FileLineValues] : n \in 0..MaxFileLines}

UpdateFileChunk(changeContext, oldLines, newLines, isEndOfFile) ==
    [changeContext |-> changeContext, oldLines |-> oldLines, newLines |-> newLines,
     isEndOfFile |-> isEndOfFile]

\* An absent change context is the empty string: `if (chunk.changeContext)`.
ChangeContextInputs == {LineEmpty, LineA}

OldLinesInputs == {<<>>, <<LineA>>, <<LineDash>>, <<LineA, LineEmpty>>}

\* The added lines that go with the removed ones: one new line, followed by
\* the empty line the old lines end with.
NewLinesFor(oldLines) ==
    IF oldLines # <<>> /\ oldLines[Len(oldLines)] = LineEmpty
    THEN <<LineX, LineEmpty>>
    ELSE <<LineX>>

ChunkInputs ==
    {UpdateFileChunk(context, old, NewLinesFor(old), eof) :
        context \in ChangeContextInputs, old \in OldLinesInputs, eof \in BOOLEAN}

NoChunk == UpdateFileChunk(LineEmpty, <<>>, <<>>, FALSE)

InitPatchVars ==
    /\ originalLines \in FileInputs
    /\ hunkChunk = NoChunk
    /\ chunksDone = 0
    /\ lineIndex = 0
    /\ seekFrom = 0
    /\ replacements = <<>>
    /\ patchStatus = "running"
    /\ updatedLines = <<>>

\* One iteration of computePatchReplacements' loop, for the next chunk c of
\* the hunk.
ApplyChunk(c) ==
    /\ patchStatus = "running"
    /\ chunksDone < MaxChunks
    /\ hunkChunk' = c
    /\ chunksDone' = chunksDone + 1
    /\ LET hasContext == c.changeContext # <<>>
           contextIndex == seekSequence(originalLines, <<c.changeContext>>, lineIndex, FALSE)
           cursor == IF hasContext THEN contextIndex + 1 ELSE lineIndex
           insertionIndex ==
               IF Len(originalLines) > 0 /\ originalLines[Len(originalLines)] = LineEmpty
               THEN Len(originalLines) - 1
               ELSE Len(originalLines)
           firstSeek == seekSequence(originalLines, c.oldLines, cursor, c.isEndOfFile)
           retry == /\ firstSeek = NotFound
                    /\ Len(c.oldLines) > 0
                    /\ c.oldLines[Len(c.oldLines)] = LineEmpty
           pattern == IF retry THEN SubSeq(c.oldLines, 1, Len(c.oldLines) - 1)
                      ELSE c.oldLines
           newSlice == IF retry /\ Len(c.newLines) > 0
                                /\ c.newLines[Len(c.newLines)] = LineEmpty
                       THEN SubSeq(c.newLines, 1, Len(c.newLines) - 1)
                       ELSE c.newLines
           foundAt == IF retry
                      THEN seekSequence(originalLines, pattern, cursor, c.isEndOfFile)
                      ELSE firstSeek
       IN  IF hasContext /\ contextIndex = NotFound
           THEN /\ patchStatus' = "failed"
                /\ seekFrom' = NotFound
                /\ UNCHANGED <<lineIndex, replacements>>
           ELSE IF Len(c.oldLines) = 0
           THEN /\ replacements' = Append(replacements,
                                     ReplacementRecord(insertionIndex, 0, c.newLines))
                /\ lineIndex' = cursor
                /\ seekFrom' = cursor
                /\ UNCHANGED patchStatus
           ELSE IF foundAt = NotFound
           THEN /\ patchStatus' = "failed"
                /\ lineIndex' = cursor
                /\ seekFrom' = cursor
                /\ UNCHANGED replacements
           ELSE /\ replacements' = Append(replacements,
                                     ReplacementRecord(foundAt, Len(pattern), newSlice))
                /\ lineIndex' = foundAt + Len(pattern)
                /\ seekFrom' = cursor
                /\ UNCHANGED patchStatus
    /\ UNCHANGED <<originalLines, updatedLines, nonPatchVars>>

\* The end of the loop: computePatchReplacements sorts the records and
\* deriveUpdatedFileContents applies them and ends the file with a newline.
FinishHunk ==
    /\ patchStatus = "running"
    /\ chunksDone > 0
    /\ replacements' = SortByStartIndex(replacements)
    /\ LET updated == applyReplacements(originalLines, replacements')
       IN  updatedLines' = IF Len(updated) = 0 \/ updated[Len(updated)] # LineEmpty
                           THEN Append(updated, LineEmpty)
                           ELSE updated
    /\ patchStatus' = "done"
    /\ UNCHANGED <<originalLines, hunkChunk, chunksDone, lineIndex, seekFrom,
                   nonPatchVars>>

NextPatch ==
    \/ \E c \in ChunkInputs : ApplyChunk(c)
    \/ FinishHunk

\* ------------------------------------------------------------------------
\* Patch applier: the hunks of a patch and the files they touch
\* ------------------------------------------------------------------------

\* The most hunks a patch has.
MaxHunks == 3

\* The contents of a file are what contents.split("\n") gives: the text
\* between the newlines, so that "a\n" is <<LineA, LineEmpty>> and the empty
\* file is <<LineEmpty>>; join("\n") leads back. A missing file is <<>>.
AbsentFile == <<>>

\* The lines of a text: its contents less the empty piece after a final
\* newline.
TextLines(contents) ==
    IF contents # <<>> /\ contents[Len(contents)] = LineEmpty
    THEN SubSeq(contents, 1, Len(contents) - 1)
    ELSE contents

\* One iteration of computePatchReplacements' loop: the record for chunk c
\* sought from the cursor, and the cursor after it. The operators below
\* follow the iteration from its end to its start.
Resolved(ok, replacement, cursor) == [ok |-> ok, replacement |-> replacement, cursor |-> cursor]

Unresolved(cursor) == Resolved(FALSE, ReplacementRecord(0, 0, <<>>), cursor)

\* The record pushed for a pattern found (or not) at foundAt.
RecordFound(pattern, newSlice, from, foundAt) ==
    IF foundAt = NotFound
    THEN Unresolved(from)
    ELSE Resolved(TRUE, ReplacementRecord(foundAt, Len(pattern), newSlice), foundAt + Len(pattern))

DropLastEmpty(list) ==
    IF Len(list) > 0 /\ list[Len(list)] = LineEmpty
    THEN SubSeq(list, 1, Len(list) - 1)
    ELSE list

\* The second seek, without the empty last line of the old lines.
RetrySeek(lines, c, from) ==
    RecordFound(DropLastEmpty(c.oldLines), DropLastEmpty(c.newLines), from,
                seekSequence(lines, DropLastEmpty(c.oldLines), from, c.isEndOfFile))

AfterFirstSeek(lines, c, from, foundAt) ==
    IF foundAt = NotFound /\ Len(c.oldLines) > 0 /\ c.oldLines[Len(c.oldLines)] = LineEmpty
    THEN RetrySeek(lines, c, from)
    ELSE RecordFound(c.oldLines, c.newLines, from, foundAt)

\* The part of the iteration after the change context.
ResolveOldLines(lines, c, from) ==
    IF Len(c.oldLines) = 0
    THEN Resolved(TRUE,
                  ReplacementRecord(IF Len(lines) > 0 /\ lines[Len(lines)] = LineEmpty
                                    THEN Len(lines) - 1 ELSE Len(lines),
                                    0, c.newLines),
                  from)
    ELSE AfterFirstSeek(lines, c, from, seekSequence(lines, c.oldLines, from, c.isEndOfFile))

AfterContextSeek(lines, c, cursor, contextIndex) ==
    IF contextIndex = NotFound
    THEN Unresolved(cursor)
    ELSE ResolveOldLines(lines, c, contextIndex + 1)

ResolveChunk(lines, c, cursor) ==
    IF c.changeContext # <<>>
    THEN AfterContextSeek(lines, c, cursor, seekSequence(lines, <<c.changeContext>>, cursor, FALSE))
    ELSE ResolveOldLines(lines, c, cursor)

\* computePatchReplacements' loop from chunk i on; ComputeNext is the part
\* of an iteration that follows the search for chunk i.
RECURSIVE ComputeFrom(_, _, _, _, _)
RECURSIVE ComputeNext(_, _, _, _, _)
ComputeNext(lines, chunks, i, records, resolved) ==
    IF ~resolved.ok
    THEN [ok |-> FALSE, replacements |-> <<>>]
    ELSE ComputeFrom(lines, chunks, i + 1, resolved.cursor, Append(records, resolved.replacement))

ComputeFrom(lines, chunks, i, cursor, records) ==
    IF i > Len(chunks)
    THEN [ok |-> TRUE, replacements |-> SortByStartIndex(records)]
    ELSE ComputeNext(lines, chunks, i, records, ResolveChunk(lines, chunks[i], cursor))

computePatchReplacements(lines, chunks) == ComputeFrom(lines, chunks, 1, 0, <<>>)

Derived(ok, newContents) == [ok |-> ok, newContents |-> newContents]

\* updatedLines.push("") unless the last line is empty already.
EndWithNewline(updated) ==
    IF Len(updated) = 0 \/ updated[Len(updated)] # LineEmpty
    THEN Append(updated, LineEmpty)
    ELSE updated

\* deriveUpdatedFileContents once the replacements are computed.
DeriveFrom(lines, computed) ==
    IF ~computed.ok THEN Derived(FALSE, <<>>)
    ELSE Derived(TRUE, EndWithNewline(applyReplacements(lines, computed.replacements)))

deriveUpdatedFileContents(contents, chunks) ==
    IF contents = AbsentFile
    THEN Derived(FALSE, <<>>)
    ELSE DeriveFrom(TextLines(contents), computePatchReplacements(TextLines(contents), chunks))

PatchHunk(type, filePath, contents, chunks, movePath) ==
    [type |-> type, filePath |-> filePath, contents |-> contents, chunks |-> chunks, movePath |-> movePath]

HunkEffect(ok, files, list, path) == [ok |-> ok, files |-> files, list |-> list, path |-> path]

\* Variant: a write that fails leaves the file cut short.
UpdateInPlace_PartialWrite(files, source, newContents, fsFails) ==
    IF fsFails # "none"
    THEN HunkEffect(FALSE, [files EXCEPT ![source] = <<LineEmpty>>], "none", source)
    ELSE HunkEffect(TRUE, [files EXCEPT ![source] = newContents], "modified", source)

\* The write of an update hunk that does not move the file.
UpdateInPlace(files, source, newContents, fsFails) ==
    IF fsFails # "none"
    THEN HunkEffect(FALSE, files, "none", source)
    ELSE HunkEffect(TRUE, [files EXCEPT ![source] = newContents], "modified", source)

\* The writes of an update hunk whose new contents are derived.
UpdateFile(files, hunk, derived, fsFails) ==
    IF ~derived.ok
    THEN HunkEffect(FALSE, files, "none", hunk.filePath)
    ELSE IF hunk.movePath = ""
    THEN UpdateInPlace(files, hunk.filePath, derived.newContents, fsFails)
    ELSE IF fsFails = "write"
    THEN HunkEffect(FALSE, files, "none", hunk.movePath)
    ELSE IF fsFails = "rm"
    THEN HunkEffect(FALSE, [files EXCEPT ![hunk.movePath] = derived.newContents], "none", hunk.movePath)
    ELSE HunkEffect(TRUE, [files EXCEPT ![hunk.movePath] = derived.newContents, ![hunk.filePath] = AbsentFile], "modified", hunk.movePath)

\* One iteration of applyPatchHunks' loop. fsFails says which file-system
\* call, if any, the system refuses: "write" or "rm".
applyPatchHunk(files, hunk, fsFails) ==
    IF hunk.type = "add_file"
    THEN IF fsFails = "write"
         THEN HunkEffect(FALSE, files, "none", hunk.filePath)
         ELSE HunkEffect(TRUE, [files EXCEPT ![hunk.filePath] = hunk.contents], "added", hunk.filePath)
    ELSE IF hunk.type = "delete_file"
    THEN IF files[hunk.filePath] = AbsentFile \/ fsFails = "rm"
         THEN HunkEffect(FALSE, files, "none", hunk.filePath)
         ELSE HunkEffect(TRUE, [files EXCEPT ![hunk.filePath] = AbsentFile], "deleted", hunk.filePath)
    ELSE UpdateFile(files, hunk, deriveUpdatedFileContents(files[hunk.filePath], hunk.chunks), fsFails)

PatchPaths == {"f", "g"}

PatchSummary(added, modified, deleted) ==
    [added |-> added, modified |-> modified, deleted |-> deleted]

NoHunk == PatchHunk("none", "f", <<>>, <<>>, "")

LastHunk(call, hunk, before, fsFails) ==
    [call |-> call, hunk |-> hunk, before |-> before, fsFails |-> fsFails]

FileContents == {AbsentFile, <<LineA, LineEmpty>>, <<LineA, LineEmpty, LineEmpty>>}

InitHunkVars ==
    /\ patchFiles \in [PatchPaths -> FileContents]
    /\ hunksDone = 0
    /\ applyStatus = "running"
    /\ patchSummary = PatchSummary(<<>>, <<>>, <<>>)
    /\ lastHunk = LastHunk(0, NoHunk, [p \in PatchPaths |-> AbsentFile], "none")

IdleHunkVars ==
    /\ patchFiles = [p \in PatchPaths |-> AbsentFile]
    /\ hunksDone = 0
    /\ applyStatus = "running"
    /\ patchSummary = PatchSummary(<<>>, <<>>, <<>>)
    /\ lastHunk = LastHunk(0, NoHunk, [p \in PatchPaths |-> AbsentFile], "none")

\* applyPatchHunks, one hunk: the next iteration of its loop.
ApplyHunk(hunk, fsFails) ==
    LET effect == applyPatchHunk(patchFiles, hunk, fsFails)
    IN  /\ applyStatus = "running"
        /\ hunksDone < MaxHunks
        /\ hunksDone' = hunksDone + 1
        /\ lastHunk' = LastHunk(1 - lastHunk.call, hunk, patchFiles, fsFails)
        /\ patchFiles' = effect.files
        /\ applyStatus' = IF effect.ok THEN "running" ELSE "failed"
        /\ patchSummary' =
               IF effect.list = "none" THEN patchSummary
               ELSE [patchSummary EXCEPT ![effect.list] = Append(@, effect.path)]
        /\ UNCHANGED nonHunkVars

\* applyPatchHunks, the end of the loop (or no hunk at all).
ApplyHunksReturn ==
    /\ applyStatus = "running"
    /\ applyStatus' = IF hunksDone = 0 THEN "failed" ELSE "ok"
    /\ UNCHANGED <<patchFiles, hunksDone, patchSummary, lastHunk, nonHunkVars>>

ReplaceA == UpdateFileChunk(LineEmpty, <<LineA>>, <<LineX>>, FALSE)

ReplaceDash == UpdateFileChunk(LineEmpty, <<LineDash>>, <<LineX>>, FALSE)

RemoveA == UpdateFileChunk(LineEmpty, <<LineA>>, <<>>, FALSE)

HunkChunks == {<<ReplaceA>>, <<ReplaceDash>>, <<RemoveA>>, <<ReplaceA, ReplaceA>>}

HunkInputs ==
    {PatchHunk("add_file", "g", <<LineX, LineEmpty>>, <<>>, "")}
    \cup {PatchHunk("delete_file", p, <<>>, <<>>, "") : p \in PatchPaths}
    \cup {PatchHunk("update", p, <<>>, chunks, "") : p \in PatchPaths, chunks \in HunkChunks}
    \cup {PatchHunk("update", "f", <<>>, <<ReplaceA>>, "g")}

NextHunks ==
    \/ \E hunk \in HunkInputs, fsFails \in {"none", "write", "rm"} : ApplyHunk(hunk, fsFails)
    \/ ApplyHunksReturn

\* C31: when a hunk fails, the file it targets is as it was before the
\* hunk, as is every file but the destination of its move, which holds what
\* earlier hunks wrote or deleted; once the patch has failed no hunk is
\* applied any more.
C31_FailureKeepsTargetAndEarlierWrites ==
    [][/\ (applyStatus' = "failed" /\ hunksDone' > hunksDone) =>
              /\ patchFiles'[lastHunk'.hunk.filePath] = patchFiles[lastHunk'.hunk.filePath]
              /\ \A p \in PatchPaths : p # lastHunk'.hunk.movePath => patchFiles'[p] = patchFiles[p]
              /\ patchSummary' = patchSummary
       /\ applyStatus = "failed" =>
              /\ patchFiles' = patchFiles
              /\ hunksDone' = hunksDone
              /\ applyStatus' = "failed"]_vars

\* The second hunk, an update of g, failed to find its old lines after the
\* first hunk had rewritten f: f stays rewritten, g is as it was.
C31_Witness ==
    /\ applyStatus = "failed"
    /\ hunksDone = 2
    /\ lastHunk.hunk = PatchHunk("update", "g", <<>>, <<ReplaceDash>>, "")
    /\ patchSummary.modified = <<"f">>
    /\ patchFiles["f"] = <<LineX, LineEmpty>>
    /\ patchFiles["g"] = <<LineA, LineEmpty>>

\* The latest hunk was an update with one chunk, applied with success.
UpdatedByOneChunk ==
    /\ applyStatus # "failed"
    /\ lastHunk.hunk.type = "update"
    /\ lastHunk.hunk.movePath = ""
    /\ Len(lastHunk.hunk.chunks) = 1
    /\ Len(lastHunk.hunk.chunks[1].oldLines) > 0

\* C32: an update hunk whose chunk's old lines match replaces the matched
\* range of lines with the chunk's new lines, leaves every other line as it
\* was and in order, writes the file with a final newline and lists the path
\* under M; an added path is listed under A, a deleted one under D.
C32_UpdateReplacesMatchedRange ==
    /\ UpdatedByOneChunk =>
           LET path == lastHunk.hunk.filePath
               before == TextLines(lastHunk.before[path])
               chunk == lastHunk.hunk.chunks[1]
               after == patchFiles[path]
               Matches(i) == SubSeq(before, i + 1, i + Len(chunk.oldLines)) = chunk.oldLines
           IN  /\ \E i \in 0..(Len(before) - Len(chunk.oldLines)) :
                      /\ Matches(i)
                      /\ TextLines(after) = SubSeq(before, 1, i) \o chunk.newLines
                                              \o SubSeq(before, i + Len(chunk.oldLines) + 1, Len(before))
               /\ Len(after) >= 2
               /\ after[Len(after)] = LineEmpty
               /\ patchSummary.modified[Len(patchSummary.modified)] = path
    /\ (applyStatus # "failed" /\ lastHunk.hunk.type = "add_file") =>
           patchSummary.added[Len(patchSummary.added)] = lastHunk.hunk.filePath
    /\ (applyStatus # "failed" /\ lastHunk.hunk.type = "delete_file") =>
           patchSummary.deleted[Len(patchSummary.deleted)] = lastHunk.hunk.filePath

\* ------------------------------------------------------------------------
\* Patch applier: properties
\* ------------------------------------------------------------------------

\* A step that handles one chunk of the hunk.
ChunkStep == chunksDone' = chunksDone + 1

\* The 0-based positions at which the old lines occur in the file, line for
\* line and character for character.
ExactOccurrences(old) ==
    {i \in 0..(Len(originalLines) - Len(old)) :
        SubSeq(originalLines, i + 1, i + Len(old)) = old}

\* The positions a seek for the old lines looks at: the end of the file for
\* an EOF-anchored chunk, everything from the cursor on otherwise.
SearchWindow(old, cursor, eof) ==
    IF eof
    THEN {Len(originalLines) - Len(old)}
    ELSE cursor..(Len(originalLines) - Len(old))

\* The file matches the old lines at position i in one of the fuzzy modes.
FuzzyAt(old, i) ==
    \E mode \in {"trim_end", "trim", "normalize"} :
        matchesPattern(originalLines, old, i, mode)

\* The record the last chunk step appended.
LastReplacement(records) == records[Len(records)]

\* C4 as stated: for any chunk of an update hunk (first or later, EOF-anchored
\* or not) whose old lines occur exactly once in the file as an exact match,
\* the replacement the applier records starts at that occurrence.
C4_ExactOccurrenceSelected ==
    [][(/\ ChunkStep
        /\ Len(hunkChunk'.oldLines) > 0
        /\ Cardinality(ExactOccurrences(hunkChunk'.oldLines)) = 1)
       => /\ patchStatus' = "running"
          /\ Len(replacements') = Len(replacements) + 1
          /\ LastReplacement(replacements').startIndex
               \in ExactOccurrences(hunkChunk'.oldLines)]_vars

\* C4 amended: for any chunk whose change context (if it has one) is found
\* and whose old lines occur exactly once in the file as an exact match, at
\* a position the seek looks at (from the hunk cursor on, or at the end of
\* the file for an EOF-anchored chunk), the replacement the applier records
\* starts at that occurrence and covers the old lines, even when a fuzzy mode
\* matches at another position.
C4_ExactOccurrenceInWindowSelected ==
    [][(/\ ChunkStep
        /\ Len(hunkChunk'.oldLines) > 0
        /\ seekFrom' # NotFound
        /\ Cardinality(ExactOccurrences(hunkChunk'.oldLines)) = 1
        /\ ExactOccurrences(hunkChunk'.oldLines)
             \subseteq SearchWindow(hunkChunk'.oldLines, seekFrom',
                                    hunkChunk'.isEndOfFile))
       => /\ patchStatus' = "running"
          /\ Len(replacements') = Len(replacements) + 1
          /\ LastReplacement(replacements').startIndex
               \in ExactOccurrences(hunkChunk'.oldLines)
          /\ LastReplacement(replacements').oldLength = Len(hunkChunk'.oldLines)
          /\ lineIndex' = LastReplacement(replacements').startIndex
                            + Len(hunkChunk'.oldLines)]_vars

\* C4 witness: the second chunk of a hunk was sought from a cursor past the
\* start of the file, its old lines occur exactly once, a fuzzy mode matches
\* them at an earlier position the seek looked at, and the record starts at
\* the exact occurrence.
C4_Witness ==
    /\ patchStatus = "running"
    /\ chunksDone = 2
    /\ Len(hunkChunk.oldLines) > 0
    /\ ~hunkChunk.isEndOfFile
    /\ seekFrom > 0
    /\ Cardinality(ExactOccurrences(hunkChunk.oldLines)) = 1
    /\ Len(replacements) = 2
    /\ LastReplacement(replacements).startIndex \in ExactOccurrences(hunkChunk.oldLines)
    /\ \E j \in seekFrom..(LastReplacement(replacements).startIndex - 1) :
           FuzzyAt(hunkChunk.oldLines, j)

\* The comparison tiers, best first.
Tiers == <<"exact", "trim_end", "trim", "normalize">>

\* The positions from `from` on at which the file matches the pattern in
\* tier k.
TierHits(pattern, from, k) ==
    {i \in from..(Len(originalLines) - Len(pattern)) :
        matchesPattern(originalLines, pattern, i, Tiers[k])}

\* No position from `from` on matches the pattern in any tier.
NoHit(pattern, from) == \A k \in 1..4 : TierHits(pattern, from, k) = {}

\* p is the first position from `from` on that matches the pattern in the
\* best tier in which any position from `from` on matches it.
BestTierFirst(pattern, from, p) ==
    \E k \in 1..4 :
        /\ p \in TierHits(pattern, from, k)
        /\ \A q \in TierHits(pattern, from, k) : p <= q
        /\ \A j \in 1..(k - 1) : TierHits(pattern, from, j) = {}

\* p is the first position from `from` on that matches the pattern in
\* whatever tier.
AnyTierFirst(pattern, from, p) ==
    /\ \E k \in 1..4 : p \in TierHits(pattern, from, k)
    /\ \A k \in 1..4 : \A q \in TierHits(pattern, from, k) : p <= q

\* The record r matches the old lines at the first position from `from` on
\* in the best tier; old lines that end in an empty line and match nowhere
\* are matched without it.
OldLinesMatched(old, from, r) ==
    \/ BestTierFirst(old, from, r.startIndex) /\ r.oldLength = Len(old)
    \/ /\ NoHit(old, from)
       /\ old[Len(old)] = LineEmpty
       /\ BestTierFirst(DropLastEmpty(old), from, r.startIndex)
       /\ r.oldLength = Len(old) - 1

\* What a chunk step does once the cursor stands at `from` behind the
\* change context: the cursor never moves back, and the old lines of a
\* chunk that is not EOF-anchored are matched from there, the cursor ending
\* just past the match.
CursorFollowsMatch(from) ==
    /\ seekFrom' = from
    /\ lineIndex' >= lineIndex
    /\ (~hunkChunk'.isEndOfFile /\ Len(hunkChunk'.oldLines) > 0 /\ patchStatus' = "running") =>
           /\ Len(replacements') = Len(replacements) + 1
           /\ OldLinesMatched(hunkChunk'.oldLines, from, LastReplacement(replacements'))
           /\ lineIndex' = LastReplacement(replacements').startIndex
                             + LastReplacement(replacements').oldLength

\* C35 as stated: the chunks of a hunk are resolved in order with a cursor
\* that only moves forward; a chunk with change context first moves the
\* cursor to just after the first line at or after the cursor that matches
\* the context, and fails if there is none; the old lines of a chunk that is
\* not EOF-anchored are matched at the first position at or after the cursor
\* in the best available tier, and the cursor moves to just past the match.
C35_CursorAfterFirstContextLine ==
    [][ChunkStep =>
         LET context == <<hunkChunk'.changeContext>>
         IN  IF hunkChunk'.changeContext = <<>>
             THEN CursorFollowsMatch(lineIndex)
             ELSE /\ NoHit(context, lineIndex) => patchStatus' = "failed"
                  /\ \A p \in 0..Len(originalLines) :
                         AnyTierFirst(context, lineIndex, p) => CursorFollowsMatch(p + 1)]_vars

\* C35 amended: the change context is sought like the old lines, tier by
\* tier: the cursor moves to just after the first line at or after the
\* cursor that matches the context in the best tier in which any such line
\* matches it (exact before trim-end before trim before normalised), so a
\* later exact line is preferred to an earlier line that matches loosely.
C35_CursorAfterBestTierContextLine ==
    [][ChunkStep =>
         LET context == <<hunkChunk'.changeContext>>
         IN  IF hunkChunk'.changeContext = <<>>
             THEN CursorFollowsMatch(lineIndex)
             ELSE /\ NoHit(context, lineIndex) => patchStatus' = "failed"
                  /\ \A p \in 0..Len(originalLines) :
                         BestTierFirst(context, lineIndex, p) => CursorFollowsMatch(p + 1)]_vars

\* The first line of the file matches the change context once trimmed, the
\* second exactly: the cursor went past the second line and the old lines
\* were found in the third.
C35_Witness ==
    /\ patchStatus = "running"
    /\ chunksDone = 1
    /\ hunkChunk = UpdateFileChunk(LineA, <<LineA>>, <<LineX>>, FALSE)
    /\ originalLines = <<LineALeading, LineA, LineA>>
    /\ seekFrom = 2
    /\ replacements = <<ReplacementRecord(2, 1, <<LineX>>)>>
    /\ lineIndex = 3

\* C40: the replacements recorded for one update hunk never overlap: taken
\* by start index, every range starts at or after the end of the range
\* before it.
C40_ReplacementsNeverOverlap ==
    LET sorted == SortByStartIndex(replacements)
    IN  \A i \in 2..Len(sorted) :
            sorted[i].startIndex >= sorted[i - 1].startIndex + sorted[i - 1].oldLength

\* ------------------------------------------------------------------------
\* bash tool: the persisted cwd/env baseline and the prologue of a call
\* ------------------------------------------------------------------------

\* process.cwd() and process.env of the loaf process. An environment is a
\* function from the variable names to their values; "unset" stands for a
\* name the environment does not hold.
EnvKeys == {"A", "B"}

ProcessCwd == "/a"

ProcessEnv == [k \in EnvKeys |-> IF k = "A" THEN "1" ELSE "unset"]

EmptyEnv == [k \in EnvKeys |-> "unset"]

\* Variant: the left operand wins.
SpreadEnv_BaseWins(base, over) == [k \in EnvKeys |-> IF base[k] # "unset" THEN base[k] ELSE over[k]]

\* { ...base, ...over }
SpreadEnv(base, over) == [k \in EnvKeys |-> IF over[k] # "unset" THEN over[k] ELSE base[k]]

createDefaultSessionState == [cwd |-> ProcessCwd, env |-> ProcessEnv]

\* A string argument as the caller may pass it: absent ("undefined"), a
\* number ("7"), or a string, possibly blank or padded.
StringTrim(value) ==
    IF value = "  " THEN ""
    ELSE IF value = " dev " THEN "dev"
    ELSE IF value = " /b " THEN "/b"
    ELSE IF value = " A " THEN "A"
    ELSE value

asNonEmptyString(value) ==
    IF value = "undefined" \/ value = "7" THEN "" ELSE StringTrim(value)

\* The env argument as the caller may pass it: absent, something that is no
\* record ("other"), or a record whose entries are strings or not
\* ("nonstring").
EnvUndefined == [type |-> "undefined", entries |-> EmptyEnv]

EnvOther == [type |-> "other", entries |-> EmptyEnv]

EnvRecord(entries) == [type |-> "record", entries |-> entries]

parseEnvOverrides(value) ==
    IF value.type = "undefined" THEN [ok |-> TRUE, value |-> EmptyEnv]
    ELSE IF value.type # "record" THEN [ok |-> FALSE, value |-> EmptyEnv]
    ELSE IF \E k \in EnvKeys : value.entries[k] = "nonstring"
         THEN [ok |-> FALSE, value |-> EmptyEnv]
    ELSE [ok |-> TRUE, value |-> value.entries]

\* Variant: reset_session is ignored.
BashPrologue_NoReset(state, commandIn, resetIn, envIn, cwdIn) ==
    LET commandText == asNonEmptyString(commandIn)
        envOverrides == parseEnvOverrides(envIn)
        cwdOverride == asNonEmptyString(cwdIn)
        cwdBefore == IF cwdOverride # "" THEN cwdOverride
                     ELSE IF state.cwd # "" THEN state.cwd
                     ELSE ProcessCwd
        envBefore == SpreadEnv(state.env, envOverrides.value)
    IN  IF commandText = "" \/ ~envOverrides.ok
        THEN [status |-> "invalid", state |-> state,
              cwdBefore |-> state.cwd, envBefore |-> state.env]
        ELSE [status |-> "ok", state |-> [cwd |-> cwdBefore, env |-> envBefore],
              cwdBefore |-> cwdBefore, envBefore |-> envBefore]

\* bashTool.run from its first line up to the shell lookup: the validation
\* of command and env, the reset, and the new baseline. state is the
\* baseline the call leaves behind at that point.
BashPrologue(state, commandIn, resetIn, envIn, cwdIn) ==
    LET commandText == asNonEmptyString(commandIn)
        resetSession == asBoolean(resetIn)
        afterReset == IF resetSession THEN createDefaultSessionState ELSE state
        envOverrides == parseEnvOverrides(envIn)
        cwdOverride == asNonEmptyString(cwdIn)
        cwdBefore == IF cwdOverride # "" THEN cwdOverride
                     ELSE IF afterReset.cwd # "" THEN afterReset.cwd
                     ELSE ProcessCwd
        envBefore == SpreadEnv(afterReset.env, envOverrides.value)
    IN  IF commandText = ""
        THEN [status |-> "invalid", state |-> state,
              cwdBefore |-> state.cwd, envBefore |-> state.env]
        ELSE IF ~envOverrides.ok
        THEN [status |-> "invalid", state |-> afterReset,
              cwdBefore |-> afterReset.cwd, envBefore |-> afterReset.env]
        ELSE [status |-> "ok", state |-> [cwd |-> cwdBefore, env |-> envBefore],
              cwdBefore |-> cwdBefore, envBefore |-> envBefore]

\* A line of a command's stdout: a marker line of the state capture (lead is
\* what the command had written on that line before the marker was printed,
\* "" when the marker is the whole line), an env line "<key>=<value>", or
\* other text.
StdoutLine(kind, lead, text, key, value) ==
    [kind |-> kind, lead |-> lead, text |-> text, key |-> key, value |-> value]

MarkerLine(name) == StdoutLine("marker", "", name, "", "")

GluedMarkerLine(lead, name) == StdoutLine("marker", lead, name, "", "")

TextLine(text) == StdoutLine("text", "", text, "", "")

EnvLine(key, value) == StdoutLine("env", "", "", key, value)

\* The last foreground bash call: its arguments, the baseline it found, the
\* cwd and env its command ran with, and its stdout. call is the parity of
\* the number of calls made so far.
BashCall(call, status, reset, cwdOverride, envOverrides, before, runCwd, runEnv, stdout, stateCaptured) ==
    [call |-> call, status |-> status, reset |-> reset, cwdOverride |-> cwdOverride,
     envOverrides |-> envOverrides, before |-> before, runCwd |-> runCwd,
     runEnv |-> runEnv, stdout |-> stdout, state_captured |-> stateCaptured]

NoBashCall ==
    BashCall(0, "none", FALSE, "", EmptyEnv, createDefaultSessionState, "", EmptyEnv,
             <<>>, FALSE)

\* The callers that may have a foreground bash call in flight at the same
\* time (tool calls of one model turn are awaited independently).
CallSlots == {"a", "b"}

\* The locals of a foreground call that outlive its awaits, and how its last
\* step ended.
ForegroundCall(phase, call, last, reset, cwdOverride, envOverrides, cwdBefore, envBefore) ==
    [phase |-> phase, call |-> call, last |-> last, reset |-> reset,
     cwdOverride |-> cwdOverride, envOverrides |-> envOverrides,
     cwdBefore |-> cwdBefore, envBefore |-> envBefore]

NoForegroundCall == ForegroundCall("idle", 0, "none", FALSE, "", EmptyEnv, "", EmptyEnv)

IdleShellVars ==
    /\ bashSessionState = createDefaultSessionState
    /\ bashCall = NoBashCall
    /\ foregroundCalls = [s \in CallSlots |-> NoForegroundCall]

\* ------------------------------------------------------------------------
\* Background session registry: state
\* ------------------------------------------------------------------------

DEFAULT_TERMINAL_COLS == 120

DEFAULT_TERMINAL_ROWS == 36

MIN_TERMINAL_COLS == 40

MIN_TERMINAL_ROWS == 10

MAX_TERMINAL_COLS == 400

MAX_TERMINAL_ROWS == 200

\* A terminal dimension as the caller may pass it: absent, a string, or a
\* number given in halves (see JsNumber).
JsString == [type |-> "string", half |-> 0]

\* Variant: the lower clamp is missing.
parseTerminalDimension_NoMin(value, fallback, min, max) ==
    IF value.type # "number" \/ value.half <= 0
    THEN fallback
    ELSE Min(max, MathFloor(value))

parseTerminalDimension(value, fallback, min, max) ==
    IF value.type # "number" \/ value.half <= 0
    THEN fallback
    ELSE Max(min, Min(max, MathFloor(value)))

\* The session object bashTool.run registers, with the fields of NewSession
\* and those the registry's tools look at.
BackgroundBashSession(id, name, cwd, fullTerminal, terminalCols, terminalRows) ==
    [id |-> id, name |-> name, cwd |-> cwd,
     terminalCols |-> terminalCols, terminalRows |-> terminalRows] @@ NewSession(fullTerminal)

\* The arguments a session tool ran with, as far as the result depends on them.
NoArgs ==
    [sessionNameRaw |-> "", cwd |-> "", fullTerminal |-> FALSE, reuseSession |-> FALSE,
     force |-> FALSE]

\* The result of the last session tool call. call is the parity of the number
\* of calls returned so far; sessionId 0 and terminal size 0 stand for null.
SessionToolResult(call, tool, status, sessionId, running, signal, cols, rows, args) ==
    [call |-> call, tool |-> tool, status |-> status, session_id |-> sessionId,
     running |-> running, signal |-> signal, terminal_cols |-> cols,
     terminal_rows |-> rows, args |-> args]

NoToolResult == SessionToolResult(0, "none", "none", 0, FALSE, "null", 0, 0, NoArgs)

\* The last call of a method of a session's process handle (child or pty):
\* the session, the method, and the status the session had at that moment.
HandleCall(sessionId, method, status) ==
    [session_id |-> sessionId, method |-> method, status |-> status]

NoHandleCall == HandleCall(0, "none", "none")

NoStop == [session_id |-> 0, signal |-> "null"]

\* One session has been started, as a PTY or on pipes, with the default
\* terminal size.
InitSessVars ==
    /\ \E fullTerminal \in BOOLEAN :
           backgroundBashSessions =
               <<BackgroundBashSession(1, "background-bash", ProcessCwd, fullTerminal,
                                       DEFAULT_TERMINAL_COLS, DEFAULT_TERMINAL_ROWS)>>
    /\ sessionProcess = <<[state |-> "running", signal |-> "none"]>>
    /\ pendingStop = NoStop
    /\ toolResult = NoToolResult
    /\ handleCall = NoHandleCall

IdleSessVars ==
    /\ backgroundBashSessions = <<>>
    /\ sessionProcess = <<>>
    /\ pendingStop = NoStop
    /\ toolResult = NoToolResult
    /\ handleCall = NoHandleCall

\* ------------------------------------------------------------------------
\* Background session registry: bash with run_in_background
\* ------------------------------------------------------------------------

\* Variant: exited sessions are candidates too.
findRunningBackgroundBashSession_AnyStatus(name, cwd, fullTerminal) ==
    LET matching == {i \in DOMAIN backgroundBashSessions :
                        /\ backgroundBashSessions[i].name = name
                        /\ backgroundBashSessions[i].cwd = cwd
                        /\ backgroundBashSessions[i].fullTerminal = fullTerminal}
    IN  IF matching = {} THEN 0 ELSE CHOOSE i \in matching : \A j \in matching : i <= j

\* The index of the session the loop returns, 0 for null.
findRunningBackgroundBashSession(name, cwd, fullTerminal) ==
    LET matching == {i \in DOMAIN backgroundBashSessions :
                        /\ backgroundBashSessions[i].status = "running"
                        /\ backgroundBashSessions[i].name = name
                        /\ backgroundBashSessions[i].cwd = cwd
                        /\ backgroundBashSessions[i].fullTerminal = fullTerminal}
    IN  IF matching = {} THEN 0 ELSE CHOOSE i \in matching : \A j \in matching : i <= j

\* createBackgroundBashSessionId: "bg-bash-<Date.now()>-<8 random hex digits>";
\* the model numbers the sessions in the order of their registration.
createBackgroundBashSessionId == Len(backgroundBashSessions) + 1

\* bashTool.run with run_in_background true. shellResolved and spawnPtyThrows
\* are the outcomes of resolveShellRuntime and spawnPty.
StartBackgroundBash(commandIn, cwdIn, nameIn, reuseIn, fullTerminalIn, shellResolved, spawnPtyThrows) ==
    LET pro == BashPrologue(bashSessionState, commandIn, "undefined", EnvUndefined, cwdIn)
        cwdBefore == pro.cwdBefore
        sessionNameRaw == asNonEmptyString(nameIn)
        sessionName == IF sessionNameRaw # "" THEN sessionNameRaw ELSE "background-bash"
        reuseSession == IF reuseIn = "undefined" THEN TRUE ELSE asBoolean(reuseIn)
        fullTerminal == IF fullTerminalIn = "undefined" THEN TRUE ELSE asBoolean(fullTerminalIn)
        terminalCols == parseTerminalDimension(JsUndefined, DEFAULT_TERMINAL_COLS,
                                               MIN_TERMINAL_COLS, MAX_TERMINAL_COLS)
        terminalRows == parseTerminalDimension(JsUndefined, DEFAULT_TERMINAL_ROWS,
                                               MIN_TERMINAL_ROWS, MAX_TERMINAL_ROWS)
        existing == IF reuseSession /\ sessionNameRaw # ""
                    THEN findRunningBackgroundBashSession(sessionNameRaw, cwdBefore, fullTerminal)
                    ELSE 0
        sessionId == createBackgroundBashSessionId
        args == [sessionNameRaw |-> sessionNameRaw, cwd |-> cwdBefore,
                 fullTerminal |-> fullTerminal, reuseSession |-> reuseSession,
                 force |-> FALSE]
        call == 1 - toolResult.call
    IN  /\ bashSessionState' = pro.state
        /\ UNCHANGED <<pendingStop, handleCall, bashCall, foregroundCalls, nonSessVars>>
        /\ IF pro.status # "ok"
           THEN /\ toolResult' = SessionToolResult(call, "bash", "invalid", 0, FALSE,
                                                   "null", 0, 0, NoArgs)
                /\ UNCHANGED <<backgroundBashSessions, sessionProcess>>
           ELSE IF ~shellResolved
           THEN /\ toolResult' = SessionToolResult(call, "bash", "no_shell", 0, FALSE,
                                                   "null", 0, 0, NoArgs)
                /\ UNCHANGED <<backgroundBashSessions, sessionProcess>>
           ELSE IF existing # 0
           THEN /\ toolResult' = SessionToolResult(call, "bash", "reused",
                       backgroundBashSessions[existing].id, TRUE, "null",
                       backgroundBashSessions[existing].terminalCols,
                       backgroundBashSessions[existing].terminalRows, args)
                /\ UNCHANGED <<backgroundBashSessions, sessionProcess>>
           ELSE IF fullTerminal /\ spawnPtyThrows
           THEN /\ toolResult' = SessionToolResult(call, "bash", "error", 0, FALSE,
                                                   "null", 0, 0, args)
                /\ UNCHANGED <<backgroundBashSessions, sessionProcess>>
           ELSE /\ Len(backgroundBashSessions) < MaxSessions
                /\ backgroundBashSessions' = Append(backgroundBashSessions,
                       BackgroundBashSession(sessionId, sessionName, cwdBefore,
                                             fullTerminal, terminalCols, terminalRows))
                /\ sessionProcess' = Append(sessionProcess,
                                            [state |-> "running", signal |-> "none"])
                /\ toolResult' = SessionToolResult(call, "bash", "started", sessionId,
                                                   TRUE, "null", terminalCols,
                                                   terminalRows, args)

NameInputs == {"undefined", " dev ", "background-bash"}

CwdInputs == {"undefined", " /b "}

\* reuse_session and full_terminal default to true when absent.
DefaultTrueInputs == {"undefined", "false"}

StartStep ==
    \/ StartBackgroundBash("  ", "undefined", "undefined", "undefined", "undefined", TRUE, FALSE)
    \/ StartBackgroundBash("cmd", "undefined", "undefined", "undefined", "undefined", FALSE, FALSE)
    \/ \E cwdIn \in CwdInputs, nameIn \in NameInputs, reuseIn \in DefaultTrueInputs,
          fullTerminalIn \in DefaultTrueInputs, spawnPtyThrows \in BOOLEAN :
           StartBackgroundBash("cmd", cwdIn, nameIn, reuseIn, fullTerminalIn, TRUE,
                               spawnPtyThrows)

\* ------------------------------------------------------------------------
\* Background session registry: process events
\* ------------------------------------------------------------------------

RECURSIVE SessionOutputUpTo(_)
SessionOutputUpTo(i) ==
    IF i = 0 THEN 0
    ELSE backgroundBashSessions[i].stdout.totalChars
         + backgroundBashSessions[i].stderr.totalChars + SessionOutputUpTo(i - 1)

SessionOutputTotal == SessionOutputUpTo(Len(backgroundBashSessions))

\* pty.onData, child.stdout.on("data") and child.stderr.on("data") of the
\* session registered as i: one character arrives on stream s. A PTY has no
\* stderr of its own.
SessionOnData(i, s) ==
    /\ i \in DOMAIN backgroundBashSessions
    /\ sessionProcess[i].state = "running"
    /\ backgroundBashSessions[i].transport = "pty" => s = "stdout"
    /\ SessionOutputTotal < MaxSessionOutput
    /\ LET chunk == Labels(SessionOutputTotal, 1)
       IN  backgroundBashSessions' =
               IF s = "stdout"
               THEN [backgroundBashSessions EXCEPT ![i].stdout =
                        appendToBackgroundStream(@, chunk)]
               ELSE [backgroundBashSessions EXCEPT ![i].stderr =
                        appendToBackgroundStream(@, chunk)]
    /\ UNCHANGED <<sessionProcess, pendingStop, toolResult, handleCall, shellVars, nonSessVars>>

\* pty.onExit and child.on("close") of the session registered as i. The
\* process has ended by itself (exit code) or by a signal sent to it; close
\* fires after the process has ended and its stdio streams have closed.
SessionOnExit(i, exitCode, signal) ==
    /\ i \in DOMAIN backgroundBashSessions
    /\ sessionProcess[i].state = "running"
    /\ (exitCode = "null") # (signal = "null")
    /\ signal # "null" => signal = sessionProcess[i].signal
    /\ sessionProcess' = [sessionProcess EXCEPT ![i].state = "closed"]
    /\ backgroundBashSessions' =
           IF backgroundBashSessions[i].transport = "pty"
           THEN [backgroundBashSessions EXCEPT
                    ![i].status = "exited",
                    ![i].exitCode = IF NumberIsFinite(exitCode) THEN exitCode ELSE "null",
                    ![i].signal = "null"]
           ELSE [backgroundBashSessions EXCEPT
                    ![i].status = "exited",
                    ![i].exitCode = exitCode,
                    ![i].signal = signal]
    /\ UNCHANGED <<pendingStop, toolResult, handleCall, shellVars, nonSessVars>>

\* ------------------------------------------------------------------------
\* Background session registry: the session tools
\* ------------------------------------------------------------------------

\* getBackgroundBashSession: the session registered under the id, if any.
getBackgroundBashSession(sessionId) == sessionId \in DOMAIN backgroundBashSessions

SessionInvalidInput(tool) ==
    /\ toolResult' = SessionToolResult(1 - toolResult.call, tool, "invalid", 0, FALSE,
                                       "null", 0, 0, NoArgs)
    /\ UNCHANGED <<backgroundBashSessions, sessionProcess, pendingStop, handleCall,
                   shellVars, nonSessVars>>

\* Variant: an exited session is written to like a running one.
WriteBackgroundBash_AnyStatus(sessionId, payloadOk) ==
    IF ~getBackgroundBashSession(sessionId)
    THEN SessionInvalidInput("write_background_bash")
    ELSE LET sess == backgroundBashSessions[sessionId]
             call == 1 - toolResult.call
         IN  IF sess.status # "running" /\ sess.status # "exited"
             THEN /\ toolResult' = SessionToolResult(call, "write_background_bash",
                         "not_running", sess.id, FALSE, sess.signal, 0, 0, NoArgs)
                  /\ UNCHANGED <<backgroundBashSessions, sessionProcess, pendingStop,
                                 handleCall, shellVars, nonSessVars>>
             ELSE IF ~payloadOk
             THEN SessionInvalidInput("write_background_bash")
             ELSE IF sess.transport = "pty" /\ sess.pty = "null"
             THEN /\ toolResult' = SessionToolResult(call, "write_background_bash",
                         "stdin_unavailable", sess.id, sess.status = "running",
                         sess.signal, 0, 0, NoArgs)
                  /\ UNCHANGED <<backgroundBashSessions, sessionProcess, pendingStop,
                                 handleCall, shellVars, nonSessVars>>
             ELSE IF sess.transport # "pty" /\ sess.child = "null"
             THEN /\ toolResult' = SessionToolResult(call, "write_background_bash",
                         "stdin_unavailable", sess.id, sess.status = "running",
                         sess.signal, 0, 0, NoArgs)
                  /\ UNCHANGED <<backgroundBashSessions, sessionProcess, pendingStop,
                                 handleCall, shellVars, nonSessVars>>
             ELSE /\ handleCall' = HandleCall(sess.id,
                         IF sess.transport = "pty" THEN "pty.write" ELSE "child.stdin.write",
                         sess.status)
                  /\ toolResult' = SessionToolResult(call, "write_background_bash", "ok",
                         sess.id, sess.status = "running", sess.signal, 0, 0, NoArgs)
                  /\ UNCHANGED <<backgroundBashSessions, sessionProcess, pendingStop,
                                 shellVars, nonSessVars>>

\* writeBackgroundBashTool.run with writeToBackgroundSession. payloadOk says
\* whether the call carries input text or a known key.
WriteBackgroundBash(sessionId, payloadOk) ==
    IF ~getBackgroundBashSession(sessionId)
    THEN SessionInvalidInput("write_background_bash")
    ELSE LET sess == backgroundBashSessions[sessionId]
             call == 1 - toolResult.call
         IN  IF sess.status # "running"
             THEN /\ toolResult' = SessionToolResult(call, "write_background_bash",
                         "not_running", sess.id, FALSE, sess.signal, 0, 0, NoArgs)
                  /\ UNCHANGED <<backgroundBashSessions, sessionProcess, pendingStop,
                                 handleCall, shellVars, nonSessVars>>
             ELSE IF ~payloadOk
             THEN SessionInvalidInput("write_background_bash")
             ELSE IF sess.transport = "pty" /\ sess.pty = "null"
             THEN /\ toolResult' = SessionToolResult(call, "write_background_bash",
                         "stdin_unavailable", sess.id, sess.status = "running",
                         sess.signal, 0, 0, NoArgs)
                  /\ UNCHANGED <<backgroundBashSessions, sessionProcess, pendingStop,
                                 handleCall, shellVars, nonSessVars>>
             ELSE IF sess.transport # "pty" /\ sess.child = "null"
             THEN /\ toolResult' = SessionToolResult(call, "write_background_bash",
                         "stdin_unavailable", sess.id, sess.status = "running",
                         sess.signal, 0, 0, NoArgs)
                  /\ UNCHANGED <<backgroundBashSessions, sessionProcess, pendingStop,
                                 handleCall, shellVars, nonSessVars>>
             ELSE /\ handleCall' = HandleCall(sess.id,
                         IF sess.transport = "pty" THEN "pty.write" ELSE "child.stdin.write",
                         sess.status)
                  /\ toolResult' = SessionToolResult(call, "write_background_bash", "ok",
                         sess.id, sess.status = "running", sess.signal, 0, 0, NoArgs)
                  /\ UNCHANGED <<backgroundBashSessions, sessionProcess, pendingStop,
                                 shellVars, nonSessVars>>

\* resizeBackgroundBashTool.run. pty.resize belongs to node-pty; on the PTY
\* of a process that has ended it either does nothing or throws
\* (resizeThrows), and a throw leaves run before the size is stored.
ResizeBackgroundBash(sessionId, colsIn, rowsIn, resizeThrows) ==
    IF ~getBackgroundBashSession(sessionId)
    THEN /\ ~resizeThrows
         /\ SessionInvalidInput("resize_background_bash")
    ELSE LET sess == backgroundBashSessions[sessionId]
             call == 1 - toolResult.call
             args == [NoArgs EXCEPT !.fullTerminal = sess.fullTerminal]
             cols == parseTerminalDimension(colsIn, sess.terminalCols,
                                            MIN_TERMINAL_COLS, MAX_TERMINAL_COLS)
             rows == parseTerminalDimension(rowsIn, sess.terminalRows,
                                            MIN_TERMINAL_ROWS, MAX_TERMINAL_ROWS)
         IN  IF sess.transport # "pty" \/ sess.pty = "null"
             THEN /\ ~resizeThrows
                  /\ toolResult' = SessionToolResult(call, "resize_background_bash",
                         "unsupported", sess.id, sess.status = "running", "null", 0, 0,
                         args)
                  /\ UNCHANGED <<backgroundBashSessions, sessionProcess, pendingStop,
                                 handleCall, shellVars, nonSessVars>>
             ELSE /\ resizeThrows => sessionProcess[sessionId].state = "closed"
                  /\ handleCall' = HandleCall(sess.id, "pty.resize", sess.status)
                  /\ IF resizeThrows
                     THEN /\ toolResult' = SessionToolResult(call,
                                 "resize_background_bash", "threw", sess.id,
                                 sess.status = "running", "null", 0, 0, args)
                          /\ UNCHANGED backgroundBashSessions
                     ELSE /\ backgroundBashSessions' = [backgroundBashSessions EXCEPT
                                 ![sessionId].terminalCols = cols,
                                 ![sessionId].terminalRows = rows]
                          /\ toolResult' = SessionToolResult(call,
                                 "resize_background_bash", "ok", sess.id,
                                 sess.status = "running", "null", cols, rows, args)
                  /\ UNCHANGED <<sessionProcess, pendingStop, shellVars, nonSessVars>>

\* The cols/rows pairs the model passes to resize_background_bash.
ResizeInputs ==
    {<<JsUndefined, JsString>>, <<JsNumber(1), JsNumber(2 * 1000)>>,
     <<JsNumber(2 * 1000 + 1), JsNumber(1)>>, <<JsNumber(-8), JsNumber(2 * 50 + 1)>>}

\* stopBackgroundBashTool.run up to its sleepMs: the signal is sent and the
\* call waits out its grace period. pty.kill() is called without an argument,
\* so the PTY's process receives node-pty's default signal.
StopBackgroundBash(sessionId, forceIn) ==
    IF ~getBackgroundBashSession(sessionId)
    THEN SessionInvalidInput("stop_background_bash")
    ELSE LET sess == backgroundBashSessions[sessionId]
             force == asBoolean(forceIn)
             signal == IF force THEN "SIGKILL" ELSE "SIGTERM"
         IN  IF sess.status # "running"
             THEN /\ toolResult' = SessionToolResult(1 - toolResult.call,
                         "stop_background_bash", "already_stopped", sess.id, FALSE,
                         sess.signal, 0, 0, [NoArgs EXCEPT !.force = force])
                  /\ UNCHANGED <<backgroundBashSessions, sessionProcess, pendingStop,
                                 handleCall, shellVars, nonSessVars>>
             ELSE /\ pendingStop = NoStop
                  /\ pendingStop' = [session_id |-> sess.id, signal |-> signal]
                  /\ IF sess.transport = "pty"
                     THEN IF sess.pty # "null"
                          THEN /\ handleCall' = HandleCall(sess.id, "pty.kill", sess.status)
                               /\ sessionProcess' = [sessionProcess EXCEPT
                                      ![sessionId].signal = "default"]
                          ELSE UNCHANGED <<handleCall, sessionProcess>>
                     ELSE IF sess.child # "null"
                          THEN /\ handleCall' = HandleCall(sess.id, "child.kill", sess.status)
                               /\ sessionProcess' = [sessionProcess EXCEPT
                                      ![sessionId].signal = signal]
                          ELSE UNCHANGED <<handleCall, sessionProcess>>
                  /\ UNCHANGED <<backgroundBashSessions, toolResult, shellVars, nonSessVars>>

\* stopBackgroundBashTool.run after its sleepMs: the response.
StopBackgroundBashReturn ==
    /\ pendingStop # NoStop
    /\ LET sess == backgroundBashSessions[pendingStop.session_id]
       IN  toolResult' = SessionToolResult(1 - toolResult.call, "stop_background_bash",
               "stop_requested", sess.id, sess.status = "running", pendingStop.signal,
               0, 0, [NoArgs EXCEPT !.force = (pendingStop.signal = "SIGKILL")])
    /\ pendingStop' = NoStop
    /\ UNCHANGED <<backgroundBashSessions, sessionProcess, handleCall, shellVars, nonSessVars>>

\* readBackgroundBashTool.run on a registered session, with the default
\* max_chars, both streams and no peek.
ReadRegisteredSession(sessionId) ==
    IF ~getBackgroundBashSession(sessionId)
    THEN SessionInvalidInput("read_background_bash")
    ELSE LET sess == backgroundBashSessions[sessionId]
             maxChars == parseBackgroundReadChars(JsUndefined)
             stdoutRead == readBackgroundStream(sess.stdout, maxChars, FALSE)
             stderrRead == readBackgroundStream(sess.stderr, maxChars, FALSE)
         IN  /\ backgroundBashSessions' = [backgroundBashSessions EXCEPT
                    ![sessionId].stdout = stdoutRead.stream,
                    ![sessionId].stderr = stderrRead.stream]
             /\ toolResult' = SessionToolResult(1 - toolResult.call,
                    "read_background_bash", "ok", sess.id, sess.status = "running",
                    sess.signal, 0, 0, NoArgs)
             /\ UNCHANGED <<sessionProcess, pendingStop, handleCall, shellVars, nonSessVars>>

\* One registered session and everything its process and the session tools
\* do to it.
NextSess ==
    \/ \E i \in DOMAIN backgroundBashSessions, s \in StreamNames : SessionOnData(i, s)
    \/ \E i \in DOMAIN backgroundBashSessions, exitCode \in ExitCodes \cup {"null"},
          signal \in Signals \cup {"SIGKILL", "default", "null"} :
           SessionOnExit(i, exitCode, signal)
    \/ \E sessionId \in 0..Len(backgroundBashSessions), payloadOk \in BOOLEAN :
           WriteBackgroundBash(sessionId, payloadOk)
    \/ \E sessionId \in 0..Len(backgroundBashSessions), dims \in ResizeInputs,
          resizeThrows \in BOOLEAN :
           ResizeBackgroundBash(sessionId, dims[1], dims[2], resizeThrows)
    \/ \E sessionId \in 0..Len(backgroundBashSessions), forceIn \in BoolInputs :
           StopBackgroundBash(sessionId, forceIn)
    \/ StopBackgroundBashReturn
    \/ \E sessionId \in 0..Len(backgroundBashSessions) : ReadRegisteredSession(sessionId)

\* The registry as background starts and process exits change it.
NextReuse ==
    \/ StartStep
    \/ \E i \in DOMAIN backgroundBashSessions : SessionOnExit(i, "0", "null")

\* ------------------------------------------------------------------------
\* Background session registry: properties
\* ------------------------------------------------------------------------

\* A session tool has returned in this step.
ToolStep(tool) == toolResult'.call # toolResult.call /\ toolResult'.tool = tool

\* The content of a session's two stream buffers.
BufferContent(sess) ==
    <<sess.stdout.buffer, sess.stdout.totalChars, sess.stdout.droppedChars,
      sess.stderr.buffer, sess.stderr.totalChars, sess.stderr.droppedChars>>

BuffersKeptAfterExit ==
    \A i \in DOMAIN backgroundBashSessions :
        backgroundBashSessions[i].status = "exited"
            => BufferContent(backgroundBashSessions'[i]) = BufferContent(backgroundBashSessions[i])

\* C11: once a session is exited no read, write, resize or stop calls a
\* method of its process handle (child or pty), and the content of its two
\* stream buffers stays what it was at exit.
C11_HandleUnusedAfterExit ==
    /\ [](handleCall.status # "exited")
    /\ [][BuffersKeptAfterExit]_vars

\* A background start that got as far as the reuse lookup has returned.
StartReturned ==
    /\ ToolStep("bash")
    /\ toolResult'.status \in {"reused", "started", "error"}

\* Some registered session is running and has the name, cwd and
\* full-terminal flag the start asked for.
RunningMatches(args) ==
    {i \in DOMAIN backgroundBashSessions :
        /\ backgroundBashSessions[i].status = "running"
        /\ backgroundBashSessions[i].name = args.sessionNameRaw
        /\ backgroundBashSessions[i].cwd = args.cwd
        /\ backgroundBashSessions[i].fullTerminal = args.fullTerminal}

ReuseAsked(args) == args.reuseSession /\ args.sessionNameRaw # ""

\* The start returned a running matching session and neither spawned a
\* process nor touched the registry.
ReturnedExisting ==
    /\ toolResult'.status = "reused"
    /\ toolResult'.session_id \in RunningMatches(toolResult'.args)
    /\ backgroundBashSessions' = backgroundBashSessions
    /\ sessionProcess' = sessionProcess

\* The start registered one more session, under an id no session had, and
\* spawned its process.
RegisteredFresh ==
    /\ toolResult'.status = "started"
    /\ Len(backgroundBashSessions') = Len(backgroundBashSessions) + 1
    /\ SubSeq(backgroundBashSessions', 1, Len(backgroundBashSessions)) = backgroundBashSessions
    /\ LET new == backgroundBashSessions'[Len(backgroundBashSessions')]
       IN  /\ \A i \in DOMAIN backgroundBashSessions : backgroundBashSessions[i].id # new.id
           /\ toolResult'.session_id = new.id
           /\ new.status = "running"
           /\ new.cwd = toolResult'.args.cwd
           /\ new.fullTerminal = toolResult'.args.fullTerminal
    /\ Len(sessionProcess') = Len(sessionProcess) + 1

\* The start returned an error and left the registry as it was.
StartFailed ==
    /\ toolResult'.status = "error"
    /\ backgroundBashSessions' = backgroundBashSessions
    /\ sessionProcess' = sessionProcess

\* C12 as stated: a background start returns an existing session, without
\* spawning or registering, exactly when reuse is asked for by name and a
\* running session has the same name, cwd and full-terminal flag; every
\* other start registers a new session under a fresh id.
C12_ReuseIffRunningMatchElseRegistered ==
    [][StartReturned =>
          IF ReuseAsked(toolResult'.args) /\ RunningMatches(toolResult'.args) # {}
          THEN ReturnedExisting
          ELSE RegisteredFresh]_vars

\* C12, amended: as above, except that a start which has to spawn a PTY and
\* whose spawn throws returns an error and registers nothing.
C12_ReuseIffRunningMatchElseRegisteredOrSpawnFailed ==
    [][StartReturned =>
          IF ReuseAsked(toolResult'.args) /\ RunningMatches(toolResult'.args) # {}
          THEN ReturnedExisting
          ELSE \/ RegisteredFresh
               \/ toolResult'.args.fullTerminal /\ StartFailed]_vars

\* A start by name was answered with a running session although an exited
\* session of the same name, cwd and flag is registered before it.
C12_Witness ==
    /\ toolResult.tool = "bash"
    /\ toolResult.status = "reused"
    /\ \E i \in DOMAIN backgroundBashSessions :
          /\ i < toolResult.session_id
          /\ backgroundBashSessions[i].status = "exited"
          /\ backgroundBashSessions[i].name = toolResult.args.sessionNameRaw
          /\ backgroundBashSessions[i].cwd = toolResult.args.cwd
          /\ backgroundBashSessions[i].fullTerminal = toolResult.args.fullTerminal

TerminalSize(sess) == <<sess.terminalCols, sess.terminalRows>>

SizesWithinLimits ==
    \A i \in DOMAIN backgroundBashSessions :
        /\ backgroundBashSessions[i].terminalCols \in MIN_TERMINAL_COLS..MAX_TERMINAL_COLS
        /\ backgroundBashSessions[i].terminalRows \in MIN_TERMINAL_ROWS..MAX_TERMINAL_ROWS

SizeChangesOnlyByPtyResize ==
    \A i \in DOMAIN backgroundBashSessions :
        TerminalSize(backgroundBashSessions'[i]) # TerminalSize(backgroundBashSessions[i])
            => /\ ToolStep("resize_background_bash")
               /\ toolResult'.session_id = backgroundBashSessions[i].id
               /\ backgroundBashSessions[i].transport = "pty"

PipeResizeUnsupported ==
    \A i \in DOMAIN backgroundBashSessions :
        (/\ ToolStep("resize_background_bash")
         /\ toolResult'.session_id = backgroundBashSessions[i].id
         /\ backgroundBashSessions[i].transport = "pipe")
            => /\ toolResult'.status = "unsupported"
               /\ backgroundBashSessions' = backgroundBashSessions

\* C13: the stored terminal size stays within [40,400] x [10,200] whatever
\* resize_background_bash is given; only a resize of a PTY session changes a
\* size; a resize of a pipe session fails as unsupported and changes nothing.
C13_ResizeClampedAndPtyOnly ==
    /\ []SizesWithinLimits
    /\ [][SizeChangesOnlyByPtyResize /\ PipeResizeUnsupported]_vars

\* A resize of a PTY session stored a size clamped at both ends.
C13_Witness ==
    /\ toolResult.tool = "resize_background_bash"
    /\ toolResult.status = "ok"
    /\ toolResult.terminal_cols = MIN_TERMINAL_COLS
    /\ toolResult.terminal_rows = MAX_TERMINAL_ROWS
    /\ \E i \in DOMAIN backgroundBashSessions :
          /\ backgroundBashSessions[i].id = toolResult.session_id
          /\ TerminalSize(backgroundBashSessions[i]) = <<MIN_TERMINAL_COLS, MAX_TERMINAL_ROWS>>

\* A stop call on a running session has sent its signal in this step.
StopRequested == pendingStop = NoStop /\ pendingStop' # NoStop

StopSendsReportedSignal ==
    StopRequested =>
        /\ sessionProcess'[pendingStop'.session_id].signal = pendingStop'.signal
        /\ backgroundBashSessions' = backgroundBashSessions

StatusChangesOnlyOnExit ==
    \A i \in DOMAIN backgroundBashSessions :
        backgroundBashSessions'[i].status # backgroundBashSessions[i].status
            => /\ sessionProcess[i].state = "running"
               /\ sessionProcess'[i].state = "closed"
               /\ backgroundBashSessions'[i].status = "exited"

\* C14: a stop of a running session, pipe or PTY, sends the session's process
\* SIGTERM, or SIGKILL when force is true, and leaves the status alone; the
\* status changes only in the exit handler.
C14_StopSendsTermOrKill ==
    [][StopSendsReportedSignal /\ StatusChangesOnlyOnExit]_vars

\* A write or stop call on the registered session i has begun in this step.
WriteOrStopCalled(i) ==
    /\ toolResult'.call # toolResult.call
    /\ toolResult'.tool \in {"write_background_bash", "stop_background_bash"}
    /\ toolResult'.session_id = i
    /\ pendingStop' = pendingStop

\* The failure a write or stop call returns for the exited session sess.
ExitedResult(tool, sess) ==
    /\ toolResult'.status = IF tool = "write_background_bash"
                            THEN "not_running" ELSE "already_stopped"
    /\ toolResult'.running = FALSE
    /\ toolResult'.signal = sess.signal

\* C39: once a session is exited, write_background_bash returns not_running
\* and writes nothing, stop_background_bash returns already_stopped and sends
\* no signal; the result depends on the session alone and the session, its
\* process and the handle stay as they were, so a repeated call gives the
\* same.
C39_WriteAndStopAfterExitDeliverNothing ==
    [][\A i \in DOMAIN backgroundBashSessions :
          (WriteOrStopCalled(i) /\ backgroundBashSessions[i].status = "exited")
              => /\ ExitedResult(toolResult'.tool, backgroundBashSessions[i])
                 /\ handleCall' = handleCall
                 /\ sessionProcess' = sessionProcess
                 /\ backgroundBashSessions' = backgroundBashSessions]_vars

\* A write was refused for a session that had been sent a signal by a stop
\* while it ran and has exited since.
C39_Witness ==
    /\ toolResult.tool = "write_background_bash"
    /\ toolResult.status = "not_running"
    /\ toolResult.session_id = 1
    /\ backgroundBashSessions[1].status = "exited"
    /\ handleCall = HandleCall(1, "child.kill", "running")
    /\ pendingStop = NoStop

\* ------------------------------------------------------------------------
\* Foreground process run (runCommand): state
\* ------------------------------------------------------------------------

\* The locals of one runCommand call. kills lists the signals child.kill was
\* called with, killTimers counts the armed 1.5 s timers, resolves counts the
\* calls of the promise's resolve.
RunLocals ==
    [settled |-> FALSE, sawExit |-> FALSE, sawClose |-> FALSE,
     exitCode |-> "null", exitSignal |-> "null",
     settleAfterExitTimer |-> FALSE, timeoutHandle |-> TRUE,
     abortListener |-> FALSE, timedOut |-> FALSE, aborted |-> FALSE,
     stderr |-> <<>>, truncatedStderr |-> FALSE,
     kills |-> <<>>, killTimers |-> 0, resolves |-> 0]

\* terminate(signal)
terminate(r, signal) == [r EXCEPT !.kills = Append(@, signal)]

\* Variant: SIGTERM is sent but no SIGKILL timer is armed.
handleAbort_NoKillTimer(r) ==
    terminate([r EXCEPT !.aborted = TRUE], "SIGTERM")

\* handleAbort: SIGTERM now, SIGKILL from a timer 1.5 s later.
handleAbort(r) ==
    [terminate([r EXCEPT !.aborted = TRUE], "SIGTERM") EXCEPT !.killTimers = @ + 1]

\* The callback of timeoutHandle.
onTimeout(r) ==
    [terminate([r EXCEPT !.timedOut = TRUE, !.timeoutHandle = FALSE], "SIGTERM")
        EXCEPT !.killTimers = @ + 1]

finalize(r) ==
    IF r.settled THEN r
    ELSE [r EXCEPT !.settled = TRUE, !.settleAfterExitTimer = FALSE,
                   !.abortListener = FALSE, !.resolves = @ + 1]

\* Variant: no grace timer is started after exit.
maybeFinalize_NoGraceTimer(r) ==
    IF ~r.sawExit THEN r
    ELSE IF r.sawClose THEN finalize(r)
    ELSE r

maybeFinalize(r) ==
    IF ~r.sawExit THEN r
    ELSE IF r.sawClose THEN finalize(r)
    ELSE IF ~r.settleAfterExitTimer THEN [r EXCEPT !.settleAfterExitTimer = TRUE]
    ELSE r

onExit(r, code, signal) ==
    maybeFinalize([r EXCEPT !.sawExit = TRUE, !.exitCode = code, !.exitSignal = signal])

onClose(r, code, signal) ==
    maybeFinalize(IF ~r.sawExit
                  THEN [r EXCEPT !.sawClose = TRUE, !.sawExit = TRUE,
                                 !.exitCode = code, !.exitSignal = signal]
                  ELSE [r EXCEPT !.sawClose = TRUE])

onError(r) ==
    maybeFinalize([r EXCEPT !.sawExit = TRUE, !.sawClose = TRUE,
                            !.exitCode = "null", !.exitSignal = "null"])

\* onStderr: the capture keeps the first MAX_CAPTURE_CHARS characters.
onStderr(r, chunk) ==
    LET next == r.stderr \o chunk
    IN  IF Len(next) > MAX_CAPTURE_CHARS
        THEN [r EXCEPT !.stderr = JsSlice(next, 0, MAX_CAPTURE_CHARS),
                       !.truncatedStderr = TRUE]
        ELSE [r EXCEPT !.stderr = next]

ProcessRunOk(timedOut, aborted, exitCode) ==
    ~timedOut /\ ~aborted /\ exitCode = "0"

\* The ProcessRunResult runCommand returns once its promise has resolved.
ProcessRunResult(r) ==
    [returned |-> TRUE, exitCode |-> r.exitCode, signal |-> r.exitSignal,
     stderr |-> r.stderr, timedOut |-> r.timedOut, aborted |-> r.aborted,
     ok |-> ProcessRunOk(r.timedOut, r.aborted, r.exitCode)]

NoRunResult ==
    [returned |-> FALSE, exitCode |-> "null", signal |-> "null", stderr |-> <<>>,
     timedOut |-> FALSE, aborted |-> FALSE, ok |-> FALSE]

\* The child as the operating system sees it. pipesHeld: a process the
\* command left behind keeps the child's stdout/stderr open, so close does
\* not fire. errorEmitted: the child object has emitted "error".
RunChild(pipesHeld) ==
    [state |-> "running", pipesHeld |-> pipesHeld, exitCode |-> "null",
     signal |-> "null", errorEmitted |-> FALSE]

\* runCommand has run up to the end of the promise executor: the child is
\* spawned, the handlers and the timeout are set, and an options.signal that
\* was already aborted has been handled.
InitRunVars ==
    \E pipesHeld \in BOOLEAN, callerSignal \in {"none", "idle", "aborted"} :
        /\ runChild = RunChild(pipesHeld)
        /\ abortSignal = callerSignal
        /\ run = IF callerSignal = "aborted" THEN handleAbort(RunLocals)
                 ELSE [RunLocals EXCEPT !.abortListener = (callerSignal = "idle")]
        /\ runResult = NoRunResult

IdleRunVars ==
    /\ runChild = RunChild(FALSE)
    /\ abortSignal = "none"
    /\ run = RunLocals
    /\ runResult = NoRunResult

\* ------------------------------------------------------------------------
\* Foreground process run: events
\* ------------------------------------------------------------------------

\* A handler has left the locals as r. If it resolved the promise, runCommand
\* continues at once: it clears the timeout and builds its result.
RunHandled(r) ==
    IF r.settled /\ ~run.settled
    THEN /\ run' = [r EXCEPT !.timeoutHandle = FALSE]
         /\ runResult' = ProcessRunResult(r)
    ELSE /\ run' = r
         /\ UNCHANGED runResult

\* child.stderr "data": one character, as long as the handler is attached
\* and the pipe is open. Output stops once the capture has overflowed.
RunChildStderrData ==
    /\ ~run.settled
    /\ runChild.state = "running" \/ (runChild.state = "exited" /\ runChild.pipesHeld)
    /\ ~run.truncatedStderr
    /\ RunHandled(onStderr(run, <<"data">>))
    /\ UNCHANGED <<runChild, abortSignal, nonRunVars>>

RunExitCodes == {"0", "1"}

\* The child ends, by itself with an exit code or by a signal that was sent
\* to it: "exit" is emitted.
RunChildExit(code, signal) ==
    /\ runChild.state = "running"
    /\ \/ code \in RunExitCodes /\ signal = "null"
       \/ code = "null" /\ signal \in Range(run.kills)
    /\ runChild' = [runChild EXCEPT !.state = "exited", !.exitCode = code,
                                    !.signal = signal]
    /\ RunHandled(IF run.settled THEN run ELSE onExit(run, code, signal))
    /\ UNCHANGED <<abortSignal, nonRunVars>>

\* The child's stdio streams have closed after it ended: "close" is emitted.
RunChildClose ==
    /\ runChild.state = "exited"
    /\ ~runChild.pipesHeld
    /\ runChild' = [runChild EXCEPT !.state = "closed"]
    /\ RunHandled(IF run.settled THEN run
                  ELSE onClose(run, runChild.exitCode, runChild.signal))
    /\ UNCHANGED <<abortSignal, nonRunVars>>

\* The child object emits "error": the spawn failed (spawnFailed, there is
\* no process) or a signal could not be delivered to the running process.
RunChildError(spawnFailed) ==
    /\ runChild.state = "running"
    /\ ~runChild.errorEmitted
    /\ ~spawnFailed => run.kills # <<>>
    /\ runChild' = [runChild EXCEPT !.errorEmitted = TRUE,
                                    !.state = IF spawnFailed THEN "failed" ELSE @]
    /\ RunHandled(IF run.settled THEN run ELSE onError(run))
    /\ UNCHANGED <<abortSignal, nonRunVars>>

\* settleAfterExitTimer fires, 250 ms after it was started.
RunGraceTimer ==
    /\ run.settleAfterExitTimer
    /\ RunHandled(finalize(run))
    /\ UNCHANGED <<runChild, abortSignal, nonRunVars>>

\* timeoutHandle fires.
RunTimeout ==
    /\ run.timeoutHandle
    /\ RunHandled(onTimeout(run))
    /\ UNCHANGED <<runChild, abortSignal, nonRunVars>>

\* One of the 1.5 s timers fires. They are never cleared.
RunKillTimer ==
    /\ run.killTimers > 0
    /\ RunHandled(terminate([run EXCEPT !.killTimers = @ - 1], "SIGKILL"))
    /\ UNCHANGED <<runChild, abortSignal, nonRunVars>>

\* The caller aborts options.signal; handleAbort runs if it is still attached.
RunAbort ==
    /\ abortSignal = "idle"
    /\ abortSignal' = "aborted"
    /\ RunHandled(IF run.abortListener
                  THEN handleAbort([run EXCEPT !.abortListener = FALSE])
                  ELSE run)
    /\ UNCHANGED <<runChild, nonRunVars>>

NextRun ==
    \/ RunChildStderrData
    \/ \E code \in RunExitCodes \cup {"null"}, signal \in {"null", "SIGTERM", "SIGKILL"} :
           RunChildExit(code, signal)
    \/ RunChildClose
    \/ \E spawnFailed \in BOOLEAN : RunChildError(spawnFailed)
    \/ RunGraceTimer
    \/ RunTimeout
    \/ RunKillTimer
    \/ RunAbort

\* ------------------------------------------------------------------------
\* Foreground process run: properties
\* ------------------------------------------------------------------------

\* The child has emitted "exit" or "error".
ChildEnded == runChild.state # "running" \/ runChild.errorEmitted

\* The promise resolves in this step.
SettleStep == run'.settled /\ ~run.settled

\* The step is the close event, the error event, or the grace timer firing
\* after an exit that started it.
CloseErrorOrGrace ==
    \/ runChild.state = "exited" /\ runChild'.state = "closed"
    \/ ~runChild.errorEmitted /\ runChild'.errorEmitted
    \/ runChild' = runChild /\ run.settleAfterExitTimer /\ runChild.state = "exited"

SettledOnceAfterEnd ==
    /\ run.resolves <= 1
    /\ run.settled <=> run.resolves = 1
    /\ run.settled <=> runResult.returned
    /\ run.settled => ChildEnded
    /\ (run.settled /\ ~runChild.errorEmitted)
           => /\ runResult.exitCode = runChild.exitCode
              /\ runResult.signal = runChild.signal

\* C15: the run settles at most once and not before the child's exit or
\* error event; it settles in the close event, in the error event, or when
\* the grace timer started at exit fires; the result carries the exit code
\* and signal of the exit event; and once the child has ended the run does
\* settle, also when close never fires.
C15_SettlesOnceAfterExit ==
    /\ []SettledOnceAfterEnd
    /\ [][SettleStep => CloseErrorOrGrace]_vars
    /\ (ChildEnded ~> run.settled)

\* C37: a run is flagged timedOut only if its child had not yet exited when
\* the timeout fired: once the child has exited with code 0 before the
\* timeout, no later order of close, grace timer and timeout sets timedOut,
\* and the run (not aborted by its caller) returns timedOut false and ok
\* true.
C37_TimedOutOnlyIfChildAlive ==
    [][(/\ runChild.state \in {"exited", "closed"}
        /\ runChild.exitCode = "0"
        /\ ~run.timedOut
        /\ abortSignal' # "aborted")
          => /\ ~run'.timedOut
             /\ runResult'.returned => (~runResult'.timedOut /\ runResult'.ok)]_vars

\* The child exited with code 0, its pipes stay open, and the run has
\* settled with that code.
C15_Witness ==
    /\ runChild.pipesHeld
    /\ runChild.state = "exited"
    /\ run.settled
    /\ runResult.exitCode = "0"
    /\ runResult.ok

RECURSIVE CountOf(_, _)
CountOf(s, x) ==
    IF s = <<>> THEN 0
    ELSE (IF Head(s) = x THEN 1 ELSE 0) + CountOf(Tail(s), x)

\* The timeout or the caller's abort takes effect in this step.
TriggerStep ==
    \/ run'.timedOut /\ ~run.timedOut
    \/ run'.aborted /\ ~run.aborted

TermThenKillTimer ==
    TriggerStep =>
        /\ ~run.settled
        /\ run'.kills = Append(run.kills, "SIGTERM")
        /\ run'.killTimers = run.killTimers + 1

\* Every SIGTERM belongs to a trigger, and every SIGTERM has its SIGKILL
\* sent after it or still on its timer.
KillsMatchTriggers ==
    /\ CountOf(run.kills, "SIGTERM")
           = (IF run.timedOut THEN 1 ELSE 0) + (IF run.aborted THEN 1 ELSE 0)
    /\ CountOf(run.kills, "SIGKILL") + run.killTimers = CountOf(run.kills, "SIGTERM")

ResultFlags ==
    runResult.returned =>
        /\ runResult.timedOut = run.timedOut
        /\ runResult.aborted = run.aborted
        /\ (runResult.timedOut \/ runResult.aborted) => ~runResult.ok
        /\ runResult.ok <=> (~runResult.timedOut /\ ~runResult.aborted
                             /\ runResult.exitCode = "0")

\* C16: a timeout or an abort (also one that preceded the start) happens
\* only while the run is unsettled, sends SIGTERM at once and starts a timer
\* that later sends SIGKILL; the result carries the flags and is not ok when
\* one is set; ok holds exactly when no flag is set and the exit code is 0.
C16_TermThenKillAndFlags ==
    /\ [](KillsMatchTriggers /\ ResultFlags)
    /\ [][TermThenKillTimer]_vars
    /\ <>[](run.killTimers = 0)

\* A run that was aborted and timed out has settled, flagged twice, after
\* both SIGKILLs.
C16_Witness ==
    /\ runResult.returned
    /\ runResult.timedOut
    /\ runResult.aborted
    /\ ~runResult.ok
    /\ runResult.exitCode = "0"
    /\ CountOf(run.kills, "SIGKILL") = 2

\* C17: a run whose child emitted an error has settled with a result, and
\* the stderr text of the result holds the error.
C17_ErrorSettlesIntoStderr ==
    [](runChild.errorEmitted
           => /\ run.settled
              /\ runResult.returned
              /\ "error" \in Range(runResult.stderr))

\* ------------------------------------------------------------------------
\* bash tool: the state capture of a foreground call
\* ------------------------------------------------------------------------

\* The text of a stdout line.
LineText(line) ==
    IF line.kind = "env" THEN line.key \o "=" \o line.value
    ELSE line.lead \o line.text

\* Array.prototype.indexOf(x, fromIndex), 0-based, -1 when absent.
JsIndexOf(lines, x, fromIndex) ==
    LET found == {i \in Max(fromIndex, 0)..(Len(lines) - 1) : lines[i + 1] = x}
    IN  IF found = {} THEN -1 ELSE CHOOSE i \in found : \A j \in found : i <= j

\* lines.join("\n")
RECURSIVE JoinLines(_)
JoinLines(lines) ==
    IF lines = <<>> THEN ""
    ELSE IF Len(lines) = 1 THEN LineText(lines[1])
    ELSE LineText(lines[1]) \o "\n" \o JoinLines(Tail(lines))

RECURSIVE parseEnvironmentLines(_)
parseEnvironmentLines(lines) ==
    IF lines = <<>> THEN EmptyEnv
    ELSE LET line == lines[Len(lines)]
             earlier == parseEnvironmentLines(SubSeq(lines, 1, Len(lines) - 1))
             key == StringTrim(line.key)
         IN  IF line.kind # "env" \/ line.key = "" THEN earlier
             ELSE IF key = "" THEN earlier
             ELSE [earlier EXCEPT ![key] = line.value]

\* parseShellStateCapture on the lines of stdout. cwdAfter "" stands for
\* null; envAfter is null exactly when stateCaptured is false.
parseShellStateCapture(lines) ==
    LET cwdStartIndex == JsIndexOf(lines, MarkerLine("CWD_START"), 0)
        cwdEndIndex == JsIndexOf(lines, MarkerLine("CWD_END"), cwdStartIndex + 1)
        envStartIndex == JsIndexOf(lines, MarkerLine("ENV_START"), cwdEndIndex + 1)
        envEndIndex == JsIndexOf(lines, MarkerLine("ENV_END"), envStartIndex + 1)
    IN  IF \/ cwdStartIndex < 0 \/ cwdEndIndex < 0 \/ envStartIndex < 0 \/ envEndIndex < 0
           \/ ~(cwdStartIndex < cwdEndIndex /\ cwdEndIndex < envStartIndex
                /\ envStartIndex < envEndIndex)
        THEN [cwdAfter |-> "", envAfter |-> EmptyEnv, stateCaptured |-> FALSE]
        ELSE [cwdAfter |-> StringTrim(JoinLines(JsSlice(lines, cwdStartIndex + 1, cwdEndIndex))),
              envAfter |-> parseEnvironmentLines(JsSlice(lines, envStartIndex + 1, envEndIndex)),
              stateCaptured |-> TRUE]

InitShellVars ==
    /\ bashSessionState = createDefaultSessionState
    /\ bashCall = NoBashCall
    /\ foregroundCalls = [s \in CallSlots |-> NoForegroundCall]

\* bashTool.run without run_in_background. shellResolved is the outcome of
\* resolveShellRuntime and stdout the lines the wrapped command wrote, as
\* runCommand captured them.
ForegroundBash(commandIn, resetIn, envIn, cwdIn, shellResolved, stdout) ==
    LET pro == BashPrologue(bashSessionState, commandIn, resetIn, envIn, cwdIn)
        call == 1 - bashCall.call
        parsed == parseShellStateCapture(stdout)
        args(status, out, captured) ==
            BashCall(call, status, asBoolean(resetIn), asNonEmptyString(cwdIn),
                     parseEnvOverrides(envIn).value, bashSessionState,
                     pro.cwdBefore, pro.envBefore, out, captured)
    IN  /\ UNCHANGED <<foregroundCalls, nonShellVars>>
        /\ IF pro.status # "ok"
           THEN /\ bashSessionState' = pro.state
                /\ bashCall' = args("invalid", <<>>, FALSE)
           ELSE IF ~shellResolved
           THEN /\ bashSessionState' = pro.state
                /\ bashCall' = args("no_shell", <<>>, FALSE)
           ELSE /\ bashSessionState' =
                       [cwd |-> IF parsed.cwdAfter # "" THEN parsed.cwdAfter
                                ELSE pro.state.cwd,
                        env |-> IF parsed.stateCaptured THEN parsed.envAfter
                                ELSE pro.envBefore]
                /\ bashCall' = args("ran", stdout, parsed.stateCaptured)

\* What the wrapped command prints after the command's own output: the
\* working directory and the environment between the four markers.
CaptureBlock(first, cwdLines, envLines) ==
    <<first>> \o cwdLines \o <<MarkerLine("CWD_END"), MarkerLine("ENV_START")>>
        \o envLines \o <<MarkerLine("ENV_END")>>

CwdBlocks == {<<TextLine(" /b ")>>, <<>>}

EnvBlocks ==
    {<<>>,
     <<EnvLine("A", "2"), TextLine("noequals"), EnvLine("", "x")>>,
     <<EnvLine("B", "1"), EnvLine("A", "1"), EnvLine(" A ", "3")>>}

\* stdout of a command whose own output ended with a newline, so that every
\* marker is a line of its own.
CapturedStdouts ==
    {<<TextLine("out")>> \o CaptureBlock(MarkerLine("CWD_START"), cwdLines, envLines) :
        cwdLines \in CwdBlocks, envLines \in EnvBlocks}

\* stdout of a command whose own output did not end with a newline
\* (printf foo): the first marker follows it on the same line.
GluedStdouts ==
    {CaptureBlock(GluedMarkerLine("foo", "CWD_START"), <<TextLine("/b")>>,
                  <<EnvLine("A", "2")>>)}

\* stdout that ends before the capture is complete, or holds no capture.
BrokenStdouts ==
    {<<TextLine("out")>>,
     <<MarkerLine("CWD_START"), TextLine("/b"), MarkerLine("CWD_END"),
       MarkerLine("ENV_START"), EnvLine("A", "2")>>,
     <<MarkerLine("ENV_START"), EnvLine("A", "2"), MarkerLine("ENV_END"),
       MarkerLine("CWD_START"), TextLine("/b"), MarkerLine("CWD_END")>>}

StdoutInputs == CapturedStdouts \cup GluedStdouts \cup BrokenStdouts

EnvInputs == {EnvUndefined, EnvRecord([k \in EnvKeys |-> IF k = "A" THEN "2" ELSE "unset"])}

InvalidEnvInputs ==
    {EnvOther, EnvRecord([k \in EnvKeys |-> IF k = "A" THEN "nonstring" ELSE "unset"])}

ShellCwdInputs == {"undefined", " /b "}

ForegroundStep ==
    \/ \E resetIn \in BoolInputs :
           ForegroundBash("  ", resetIn, EnvUndefined, "undefined", TRUE, <<>>)
    \/ \E resetIn \in BoolInputs, envIn \in InvalidEnvInputs :
           ForegroundBash("cmd", resetIn, envIn, "undefined", TRUE, <<>>)
    \/ \E resetIn \in BoolInputs, cwdIn \in ShellCwdInputs :
           ForegroundBash("cmd", resetIn, EnvUndefined, cwdIn, FALSE, <<>>)
    \/ \E resetIn \in BoolInputs, envIn \in EnvInputs, cwdIn \in ShellCwdInputs,
          stdout \in StdoutInputs :
           ForegroundBash("cmd", resetIn, envIn, cwdIn, TRUE, stdout)

NextShell == ForegroundStep

\* ------------------------------------------------------------------------
\* bash tool baseline: properties
\* ------------------------------------------------------------------------

\* A foreground call has run its command and returned in this step.
RanStep == bashCall'.call # bashCall.call /\ bashCall'.status = "ran"

MarkerNames == <<"CWD_START", "CWD_END", "ENV_START", "ENV_END">>

\* The positions (1-based, increasing) of lines of stdout that hold the four
\* markers in order.
MarkerPositions(lines) ==
    LET at(n) == {i \in DOMAIN lines : lines[i].kind = "marker" /\ lines[i].text = MarkerNames[n]}
    IN  {p \in {<<a, b, c, d>> : a \in at(1), b \in at(2), c \in at(3), d \in at(4)} :
            \A n \in 1..3 : p[n] < p[n + 1]}

\* As MarkerPositions, for markers that are whole lines.
MarkerLinePositions(lines) ==
    {p \in MarkerPositions(lines) : \A n \in 1..4 : lines[p[n]].lead = ""}

\* The value the environment block gives to name k: that of the last line
\* "<k>=<value>" (blanks around the name aside), "unset" if there is none.
BlockValue(block, k) ==
    LET at == {i \in DOMAIN block :
                  block[i].kind = "env" /\ block[i].key # "" /\ StringTrim(block[i].key) = k}
    IN  IF at = {} THEN "unset" ELSE block[CHOOSE i \in at : \A j \in at : j <= i].value

BlockEnv(block) == [k \in EnvKeys |-> BlockValue(block, k)]

\* The call started from reset state if it asked for a reset, else from
\* the baseline it found.
StartState(c) == IF c.reset THEN createDefaultSessionState ELSE c.before

StartCwd(c) == IF c.cwdOverride # "" THEN c.cwdOverride ELSE StartState(c).cwd

BaselineFollowsCapture ==
    RanStep =>
        \A p \in MarkerPositions(bashCall'.stdout) :
            LET text == StringTrim(JoinLines(SubSeq(bashCall'.stdout, p[1] + 1, p[2] - 1)))
                block == SubSeq(bashCall'.stdout, p[3] + 1, p[4] - 1)
            IN  /\ text # "" => bashSessionState'.cwd = text
                /\ bashSessionState'.env = BlockEnv(block)

NextCallRunsAtBaseline ==
    (RanStep /\ bashCall'.cwdOverride = "" /\ ~bashCall'.reset)
        => bashCall'.runCwd = bashSessionState.cwd

\* C18: after a foreground call whose stdout holds the four markers in
\* order, the baseline cwd is the (non-blank) text between the CWD markers
\* and the baseline env is the parsed ENV block; the next call without cwd
\* override (and without reset) runs in the baseline cwd.
C18_BaselineFollowsMarkers ==
    [][BaselineFollowsCapture /\ NextCallRunsAtBaseline]_vars

\* C19: after a foreground call whose stdout does not hold the four marker
\* lines in order, the baseline env is the env the call started from (the
\* baseline before it, or the default state if it asked for a reset) plus
\* the call's env overrides, and the baseline cwd is the cwd the call
\* started in (its cwd override when given).
C19_MissingMarkersKeepSnapshot ==
    [][(RanStep /\ MarkerLinePositions(bashCall'.stdout) = {})
          => /\ bashSessionState'.env = [k \in EnvKeys |->
                    IF bashCall'.envOverrides[k] # "unset"
                    THEN bashCall'.envOverrides[k]
                    ELSE StartState(bashCall').env[k]]
             /\ bashSessionState'.cwd = StartCwd(bashCall')]_vars

\* A call with cwd and env overrides ran without a complete capture; the
\* baseline holds its overrides over what was persisted before.
C19_Witness ==
    /\ bashCall.status = "ran"
    /\ ~bashCall.state_captured
    /\ bashCall.stdout # <<>>
    /\ ~bashCall.reset
    /\ bashCall.cwdOverride = "/b"
    /\ bashCall.before.cwd = "/a"
    /\ bashCall.before.env["A"] = "3"
    /\ bashCall.before.env["B"] = "1"
    /\ bashCall.envOverrides["A"] = "2"
    /\ bashSessionState.cwd = "/b"
    /\ bashSessionState.env["A"] = "2"
    /\ bashSessionState.env["B"] = "1"

\* C20: a call with reset_session true runs its command in the process's
\* own cwd and env, changed only by the call's own overrides, whatever was
\* persisted before.
C20_ResetStartsFromDefaults ==
    [][(RanStep /\ bashCall'.reset)
          => /\ bashCall'.runCwd = IF bashCall'.cwdOverride # ""
                                   THEN bashCall'.cwdOverride ELSE ProcessCwd
             /\ bashCall'.runEnv = [k \in EnvKeys |->
                    IF bashCall'.envOverrides[k] # "unset"
                    THEN bashCall'.envOverrides[k] ELSE ProcessEnv[k]]]_vars

\* A call with reset_session ran in the process's cwd and env although both
\* cwd and env of the baseline had been changed before.
C20_Witness ==
    /\ bashCall.status = "ran"
    /\ bashCall.reset
    /\ bashCall.cwdOverride = ""
    /\ bashCall.before.cwd = "/b"
    /\ bashCall.before.env["A"] = "3"
    /\ bashCall.before.env["B"] = "1"
    /\ bashCall.runCwd = ProcessCwd
    /\ bashCall.runEnv = ProcessEnv

\* C38: a bash call rejected as invalid input (empty command, or an env that
\* is no map of strings to strings) leaves the baseline cwd and env as they
\* were before the call, with reset_session true as well.
C38_InvalidInputKeepsBaseline ==
    [][(bashCall'.call # bashCall.call /\ bashCall'.status = "invalid")
          => bashSessionState' = bashSessionState]_vars

\* ------------------------------------------------------------------------
\* bash tool: foreground calls in flight at the same time
\* ------------------------------------------------------------------------

\* bashTool.run of caller s up to its first await: validation, reset, the
\* snapshot of cwd and env and the write of both to the baseline; then the
\* shell is resolved and, if there is one, the command is spawned.
ForegroundBashBegin(s, commandIn, resetIn, envIn, cwdIn, shellResolved) ==
    LET pro == BashPrologue(bashSessionState, commandIn, resetIn, envIn, cwdIn)
        mine == foregroundCalls[s]
        next(phase, last) ==
            ForegroundCall(phase, 1 - mine.call, last, asBoolean(resetIn),
                           asNonEmptyString(cwdIn), parseEnvOverrides(envIn).value,
                           pro.cwdBefore, pro.envBefore)
    IN  /\ mine.phase = "idle"
        /\ bashSessionState' = pro.state
        /\ foregroundCalls' = [foregroundCalls EXCEPT ![s] =
               IF pro.status # "ok" THEN next("idle", "invalid")
               ELSE IF ~shellResolved THEN next("idle", "no_shell")
               ELSE next("running", "begun")]
        /\ UNCHANGED <<bashCall, nonShellVars>>

\* Variant: a call whose capture failed puts back its own starting cwd too.
ForegroundBashSettle_RestoresCwd(s, stdout) ==
    LET mine == foregroundCalls[s]
        parsed == parseShellStateCapture(stdout)
    IN  /\ mine.phase = "running"
        /\ bashSessionState' =
               [cwd |-> IF parsed.cwdAfter # "" THEN parsed.cwdAfter ELSE mine.cwdBefore,
                env |-> IF parsed.stateCaptured THEN parsed.envAfter ELSE mine.envBefore]
        /\ foregroundCalls' = [foregroundCalls EXCEPT ![s] =
               [mine EXCEPT !.phase = "idle", !.call = 1 - mine.call, !.reset = FALSE,
                            !.cwdOverride = "", !.envOverrides = EmptyEnv,
                            !.last = IF parsed.stateCaptured THEN "captured" ELSE "rolled_back"]]
        /\ UNCHANGED <<bashCall, nonShellVars>>

\* bashTool.run of caller s after `await runCommand(...)`: the command has
\* settled with stdout; the capture is parsed and the baseline written.
ForegroundBashSettle(s, stdout) ==
    LET mine == foregroundCalls[s]
        parsed == parseShellStateCapture(stdout)
    IN  /\ mine.phase = "running"
        /\ bashSessionState' =
               [cwd |-> IF parsed.cwdAfter # "" THEN parsed.cwdAfter ELSE bashSessionState.cwd,
                env |-> IF parsed.stateCaptured THEN parsed.envAfter ELSE mine.envBefore]
        /\ foregroundCalls' = [foregroundCalls EXCEPT ![s] =
               [mine EXCEPT !.phase = "idle", !.call = 1 - mine.call, !.reset = FALSE,
                            !.cwdOverride = "", !.envOverrides = EmptyEnv,
                            !.last = IF parsed.stateCaptured THEN "captured" ELSE "rolled_back"]]
        /\ UNCHANGED <<bashCall, nonShellVars>>

\* What the commands of overlapping calls print: a capture that moved to /c
\* with A=3, or nothing usable.
OverlapStdouts ==
    {CaptureBlock(MarkerLine("CWD_START"), <<TextLine("/c")>>, <<EnvLine("A", "3")>>),
     <<TextLine("out")>>}

OverlapBegin ==
    \E s \in CallSlots :
        \/ ForegroundBashBegin(s, "  ", "true", EnvUndefined, "undefined", TRUE)
        \/ ForegroundBashBegin(s, "cmd", "undefined", EnvUndefined, " /b ", FALSE)
        \/ \E resetIn \in BoolInputs, envIn \in EnvInputs, cwdIn \in ShellCwdInputs :
               ForegroundBashBegin(s, "cmd", resetIn, envIn, cwdIn, TRUE)

OverlapSettle == \E s \in CallSlots, stdout \in OverlapStdouts : ForegroundBashSettle(s, stdout)

NextOverlap == OverlapBegin \/ OverlapSettle

\* ------------------------------------------------------------------------
\* Overlapping foreground calls: properties
\* ------------------------------------------------------------------------

\* Caller s takes the first step of a call (which runs up to its first await).
BeginStepOf(s) ==
    foregroundCalls[s].phase = "idle" /\ foregroundCalls'[s].call # foregroundCalls[s].call

\* The command of caller s settles and its call returns.
SettleStepOf(s) ==
    foregroundCalls[s].phase = "running" /\ foregroundCalls'[s].phase = "idle"

\* C21 as stated: the baseline changes only in a step in which a call's
\* command settles.
C21_BaselineWrittenOnlyAtSettlement ==
    [][bashSessionState' # bashSessionState => \E s \in CallSlots : SettleStepOf(s)]_vars

BaselineAtBegin(s) ==
    foregroundCalls'[s].last # "invalid"
        => bashSessionState' = [cwd |-> foregroundCalls'[s].cwdBefore,
                                env |-> foregroundCalls'[s].envBefore]

BaselineAtSettle(s) ==
    IF foregroundCalls'[s].last = "rolled_back"
    THEN /\ bashSessionState'.cwd = bashSessionState.cwd
         /\ bashSessionState'.env = foregroundCalls[s].envBefore
    ELSE bashSessionState'.cwd = "/c" /\ bashSessionState'.env["A"] = "3"

\* C21, amended: a foreground call writes the baseline at two points only,
\* in its first step (the call's starting cwd and its env snapshot) and
\* when its command settles (the captured cwd and env; without a capture
\* its own env snapshot, leaving the cwd as it then is); whatever other
\* calls are in flight, the baseline changes in no other step.
C21_BaselineWrittenAtStartAndSettlement ==
    [][/\ bashSessionState' # bashSessionState
             => \E s \in CallSlots : BeginStepOf(s) \/ SettleStepOf(s)
       /\ \A s \in CallSlots :
             /\ BeginStepOf(s) => BaselineAtBegin(s)
             /\ SettleStepOf(s) => BaselineAtSettle(s)]_vars

\* Two calls overlapped: b began with overrides while a was running, then
\* a settled without a capture and put its own env snapshot back, so the
\* baseline holds b's cwd and a's env while b is still running.
C21_Witness ==
    /\ foregroundCalls["a"].last = "rolled_back"
    /\ foregroundCalls["b"].phase = "running"
    /\ foregroundCalls["b"].cwdOverride = "/b"
    /\ foregroundCalls["b"].envBefore["A"] = "2"
    /\ foregroundCalls["a"].cwdBefore = "/a"
    /\ bashSessionState.cwd = "/b"
    /\ bashSessionState.env = foregroundCalls["a"].envBefore
    /\ bashSessionState.env["A"] = "1"

\* ------------------------------------------------------------------------
\* Tool registry and runtime
\* ------------------------------------------------------------------------

ToolNames == {"bash", "list"}

\* A tool definition as far as execute can tell definitions apart: what its
\* run function does when it is called. "returns" and "resolves" hand back a
\* ToolResult (directly or through a promise), "throws" throws before
\* returning, "rejects" returns a promise that is rejected; thrown is the
\* value thrown or rejected with: an Error with a message, or a string.
ToolDefinition(behaviour, ok, thrown, message) ==
    [run |-> behaviour, ok |-> ok, thrown |-> thrown, message |-> message]

NoTool == ToolDefinition("none", FALSE, "none", "")

ToolDefinitions ==
    {ToolDefinition("returns", TRUE, "none", ""),
     ToolDefinition("resolves", FALSE, "none", "bad input"),
     ToolDefinition("throws", FALSE, "Error", "boom"),
     ToolDefinition("throws", FALSE, "string", "oops"),
     ToolDefinition("rejects", FALSE, "Error", "late"),
     ToolDefinition("rejects", FALSE, "string", "nope")}

\* ToolRegistry.register: the definition replaces whatever the name held.
RegistryRegister(name, tool) ==
    /\ toolRegistry' = [toolRegistry EXCEPT ![name] = tool]
    /\ UNCHANGED <<executeCall, nonRtVars>>

\* ToolRegistry.get: undefined ("none") for a name that is not registered.
RegistryGet(name) == IF name \in DOMAIN toolRegistry THEN toolRegistry[name] ELSE NoTool

ToolResult(ok, callId, tool, status, error) ==
    [ok |-> ok, callId |-> callId, tool |-> tool, status |-> status, error |-> error]

\* The result a tool's own run function produces. The runtime passes it on
\* untouched: its callId and tool fields are the tool's business.
ToolOwnResult(tool) ==
    ToolResult(tool.ok, "own", "own", IF tool.ok THEN "ok" ELSE "invalid_input", tool.message)

\* error instanceof Error ? error.message : String(error)
ErrorText(tool) == tool.message

\* How the promise execute returned has settled, and with what.
Settled(how, result) == [how |-> how, result |-> result]

NoToolResultYet == ToolResult(FALSE, "null", "", "none", "")

\* Variant: the promise of run is returned without being awaited inside the
\* try block, so a rejection is not caught.
execute_NoAwait(name, callId) ==
    LET tool == RegistryGet(name)
    IN  IF tool.run = "none"
        THEN Settled("fulfilled", ToolResult(FALSE, callId, name, "not_found", "unknown tool: " \o name))
        ELSE IF tool.run = "throws"
        THEN Settled("fulfilled", ToolResult(FALSE, callId, name, "error", ErrorText(tool)))
        ELSE IF tool.run = "rejects"
        THEN Settled("rejected", NoToolResultYet)
        ELSE Settled("fulfilled", ToolOwnResult(tool))

\* ToolRuntime.execute for call {id, name}: callId is call.id ?? null.
execute(name, callId) ==
    LET tool == RegistryGet(name)
    IN  IF tool.run = "none"
        THEN Settled("fulfilled", ToolResult(FALSE, callId, name, "not_found", "unknown tool: " \o name))
        ELSE IF tool.run \in {"throws", "rejects"}
        THEN Settled("fulfilled", ToolResult(FALSE, callId, name, "error", ErrorText(tool)))
        ELSE Settled("fulfilled", ToolOwnResult(tool))

ExecuteCall(call, name, tool, settled) ==
    [call |-> call, name |-> name, tool |-> tool, settled |-> settled]

NoExecuteCall == ExecuteCall(0, "", NoTool, Settled("none", NoToolResultYet))

CallNames == ToolNames \cup {"missing"}

CallIds == {"null", "call_1"}

RuntimeExecute(name, callId) ==
    /\ executeCall' = ExecuteCall(1 - executeCall.call, name, RegistryGet(name), execute(name, callId))
    /\ UNCHANGED <<toolRegistry, nonRtVars>>

InitRtVars ==
    /\ toolRegistry = [n \in ToolNames |-> NoTool]
    /\ executeCall = NoExecuteCall

IdleRtVars ==
    /\ toolRegistry = [n \in ToolNames |-> NoTool]
    /\ executeCall = NoExecuteCall

NextRt ==
    \/ \E name \in ToolNames, tool \in ToolDefinitions : RegistryRegister(name, tool)
    \/ \E name \in CallNames, callId \in CallIds : RuntimeExecute(name, callId)

\* ------------------------------------------------------------------------
\* Tool runtime: properties
\* ------------------------------------------------------------------------

FailureOf(status, error) ==
    /\ ~executeCall.settled.result.ok
    /\ executeCall.settled.result.status = status
    /\ executeCall.settled.result.error = error
    /\ executeCall.settled.result.tool = executeCall.name

\* C22: the promise of ToolRuntime.execute is never rejected; for a name
\* that is not registered its result is a not_found failure, and for a tool
\* whose run throws or rejects an error failure with the error's message.
C22_ExecuteNeverRejects ==
    executeCall.call # NoExecuteCall.call \/ executeCall.name # ""
        => /\ executeCall.settled.how = "fulfilled"
           /\ executeCall.tool.run = "none" => FailureOf("not_found", "unknown tool: " \o executeCall.name)
           /\ executeCall.tool.run \in {"throws", "rejects"} => FailureOf("error", executeCall.tool.message)

\* A registered tool whose run returned a rejected promise was executed.
C22_Witness ==
    /\ executeCall.name = "bash"
    /\ executeCall.tool.run = "rejects"
    /\ executeCall.tool.thrown = "Error"
    /\ executeCall.settled.result.status = "error"
    /\ executeCall.settled.result.error = "late"

\* ------------------------------------------------------------------------
\* Streaming chunking policy
\* ------------------------------------------------------------------------

ENTER_QUEUE_DEPTH_LINES == 8

ENTER_OLDEST_AGE_MS == 120

EXIT_QUEUE_DEPTH_LINES == 2

EXIT_OLDEST_AGE_MS == 40

EXIT_HOLD_MS == 250

REENTER_CATCH_UP_HOLD_MS == 250

SEVERE_QUEUE_DEPTH_LINES == 64

SEVERE_OLDEST_AGE_MS == 300

\* The latest time a tick carries.
MaxNowMs == 1000

\* `number | null`: null is the empty sequence, a number n is <<n>>.
NullMs == <<>>

StreamingQueueSnapshot(queuedLines, oldestQueuedAgeMs) ==
    [queuedLines |-> queuedLines, oldestQueuedAgeMs |-> oldestQueuedAgeMs]

StreamingChunkingPolicy(mode, belowExitThresholdSinceMs, lastCatchUpExitAtMs) ==
    [mode |-> mode, belowExitThresholdSinceMs |-> belowExitThresholdSinceMs, lastCatchUpExitAtMs |-> lastCatchUpExitAtMs]

NewStreamingChunkingPolicy == StreamingChunkingPolicy("smooth", NullMs, NullMs)

shouldEnterCatchUp(snapshot) ==
    \/ snapshot.queuedLines >= ENTER_QUEUE_DEPTH_LINES
    \/ /\ snapshot.oldestQueuedAgeMs # NullMs
       /\ snapshot.oldestQueuedAgeMs[1] >= ENTER_OLDEST_AGE_MS

\* Variant: one calm measure is enough.
shouldExitCatchUp_Either(snapshot) ==
    \/ snapshot.queuedLines <= EXIT_QUEUE_DEPTH_LINES
    \/ /\ snapshot.oldestQueuedAgeMs # NullMs
       /\ snapshot.oldestQueuedAgeMs[1] <= EXIT_OLDEST_AGE_MS

shouldExitCatchUp(snapshot) ==
    /\ snapshot.queuedLines <= EXIT_QUEUE_DEPTH_LINES
    /\ snapshot.oldestQueuedAgeMs # NullMs
    /\ snapshot.oldestQueuedAgeMs[1] <= EXIT_OLDEST_AGE_MS

\* Variant: a queue of severe depth is not told from any other.
isSevereBacklog_AgeOnly(snapshot) ==
    /\ snapshot.oldestQueuedAgeMs # NullMs
    /\ snapshot.oldestQueuedAgeMs[1] >= SEVERE_OLDEST_AGE_MS

isSevereBacklog(snapshot) ==
    \/ snapshot.queuedLines >= SEVERE_QUEUE_DEPTH_LINES
    \/ /\ snapshot.oldestQueuedAgeMs # NullMs
       /\ snapshot.oldestQueuedAgeMs[1] >= SEVERE_OLDEST_AGE_MS

maybeEnterCatchUp(policy, snapshot, nowMs) ==
    LET holdActive ==
            /\ policy.lastCatchUpExitAtMs # NullMs
            /\ nowMs - policy.lastCatchUpExitAtMs[1] < REENTER_CATCH_UP_HOLD_MS
    IN  IF ~shouldEnterCatchUp(snapshot) THEN policy
        ELSE IF holdActive /\ ~isSevereBacklog(snapshot) THEN policy
        ELSE StreamingChunkingPolicy("catchup", NullMs, NullMs)

maybeExitCatchUp(policy, snapshot, nowMs) ==
    IF ~shouldExitCatchUp(snapshot)
    THEN [policy EXCEPT !.belowExitThresholdSinceMs = NullMs]
    ELSE IF policy.belowExitThresholdSinceMs = NullMs
    THEN [policy EXCEPT !.belowExitThresholdSinceMs = <<nowMs>>]
    ELSE IF nowMs - policy.belowExitThresholdSinceMs[1] >= EXIT_HOLD_MS
    THEN StreamingChunkingPolicy("smooth", NullMs, <<nowMs>>)
    ELSE policy

Decision(policy, drainCount) == [policy |-> policy, drainCount |-> drainCount]

\* Variant: the scope argument is not looked at.
decide_AnyScope(policy, snapshot, nowMs, scope) ==
    IF snapshot.queuedLines = 0
    THEN Decision(StreamingChunkingPolicy("smooth", NullMs,
                      IF policy.mode = "catchup" THEN <<nowMs>>
                      ELSE policy.lastCatchUpExitAtMs), 0)
    ELSE LET after == IF policy.mode = "smooth"
                      THEN maybeEnterCatchUp(policy, snapshot, nowMs)
                      ELSE maybeExitCatchUp(policy, snapshot, nowMs)
         IN  Decision(after, IF after.mode = "catchup"
                             THEN Max(1, snapshot.queuedLines) ELSE 1)

\* decide: the policy after the tick and the returned drain count.
decide(policy, snapshot, nowMs, scope) ==
    IF snapshot.queuedLines = 0
    THEN Decision(StreamingChunkingPolicy("smooth", NullMs,
                      IF policy.mode = "catchup" THEN <<nowMs>>
                      ELSE policy.lastCatchUpExitAtMs), 0)
    ELSE LET after == IF policy.mode = "smooth"
                      THEN maybeEnterCatchUp(policy, snapshot, nowMs)
                      ELSE maybeExitCatchUp(policy, snapshot, nowMs)
         IN  IF scope = "catchup_only" /\ after.mode # "catchup"
             THEN Decision(after, 0)
             ELSE Decision(after, IF after.mode = "catchup"
                                  THEN Max(1, snapshot.queuedLines) ELSE 1)

Tick(call, before, snapshot, nowMs, scope, after, drainCount, leftBefore, heldBefore) ==
    [call |-> call, before |-> before, snapshot |-> snapshot, nowMs |-> nowMs, scope |-> scope, after |-> after, drainCount |-> drainCount, leftBefore |-> leftBefore, heldBefore |-> heldBefore]

NoTick ==
    Tick(0, NewStreamingChunkingPolicy, StreamingQueueSnapshot(0, NullMs), 0, "none", NewStreamingChunkingPolicy, 0, NullMs, NullMs)

InitPolicyVars ==
    /\ chunkingPolicy = NewStreamingChunkingPolicy
    /\ clockMs = 0
    /\ lastTick = NoTick
    /\ leftCatchUpAtMs = NullMs
    /\ heldSinceMs = NullMs

IdlePolicyVars ==
    /\ chunkingPolicy = NewStreamingChunkingPolicy
    /\ clockMs = 0
    /\ lastTick = NoTick
    /\ leftCatchUpAtMs = NullMs
    /\ heldSinceMs = NullMs

\* The queue is calm: both measures are at or below the exit thresholds.
Calm(snapshot) ==
    /\ snapshot.queuedLines <= 2
    /\ snapshot.oldestQueuedAgeMs # NullMs
    /\ snapshot.oldestQueuedAgeMs[1] <= 40

\* One tick: the renderer calls decide(snapshot, nowMs, scope). The history
\* variables follow the modes only: when a tick last took the policy from
\* catchup to smooth, and since when the ticks of the current stay in
\* catchup have been calm without a break.
Decide(snapshot, nowMs, scope) ==
    LET decision == decide(chunkingPolicy, snapshot, nowMs, scope)
        after == decision.policy
    IN  /\ nowMs <= MaxNowMs
        /\ chunkingPolicy' = after
        /\ clockMs' = nowMs
        /\ lastTick' = Tick(1 - lastTick.call, chunkingPolicy, snapshot, nowMs, scope, after, decision.drainCount, leftCatchUpAtMs, heldSinceMs)
        /\ leftCatchUpAtMs' = IF chunkingPolicy.mode = "catchup" /\ after.mode = "smooth"
                              THEN <<nowMs>> ELSE leftCatchUpAtMs
        /\ heldSinceMs' = IF chunkingPolicy.mode = "catchup" /\ after.mode = "catchup" /\ Calm(snapshot)
                          THEN (IF heldSinceMs = NullMs THEN <<nowMs>> ELSE heldSinceMs)
                          ELSE NullMs
        /\ UNCHANGED nonPolicyVars

\* reset(): the policy is as newly constructed.
PolicyReset ==
    /\ chunkingPolicy # NewStreamingChunkingPolicy
    /\ chunkingPolicy' = NewStreamingChunkingPolicy
    /\ leftCatchUpAtMs' = NullMs
    /\ heldSinceMs' = NullMs
    /\ UNCHANGED <<clockMs, lastTick, nonPolicyVars>>

QueueDepths == {0, 2, 3, 8, 64}

QueueAges == {NullMs, <<40>>, <<41>>, <<120>>, <<300>>}

TickDeltas == {125, 250}

Scopes == {"any", "catchup_only"}

NextPolicy ==
    \/ \E depth \in QueueDepths, age \in QueueAges, delta \in TickDeltas, scope \in Scopes :
           Decide(StreamingQueueSnapshot(depth, age), clockMs + delta, scope)
    \/ PolicyReset

\* The latest tick found the policy in the given mode with a queue that was
\* not empty.
TickIn(mode) ==
    /\ lastTick.scope # "none"
    /\ lastTick.before.mode = mode
    /\ lastTick.snapshot.queuedLines # 0

AgeAtLeast(snapshot, ms) ==
    snapshot.oldestQueuedAgeMs # NullMs /\ snapshot.oldestQueuedAgeMs[1] >= ms

\* C28: a tick with a non-empty queue in smooth mode switches to catchup if
\* and only if (queuedLines >= 8 or oldest age >= 120 ms) and (the policy
\* did not leave catchup less than 250 ms before the tick, or queuedLines
\* >= 64 or oldest age >= 300 ms).
C28_EntersCatchUpIff ==
    TickIn("smooth") =>
        LET s == lastTick.snapshot
            leftRecently ==
                /\ lastTick.leftBefore # NullMs
                /\ lastTick.nowMs - lastTick.leftBefore[1] < 250
        IN  lastTick.after.mode = "catchup" <=>
                /\ s.queuedLines >= 8 \/ AgeAtLeast(s, 120)
                /\ ~leftRecently \/ s.queuedLines >= 64 \/ AgeAtLeast(s, 300)

\* A tick 125 ms after the policy left catchup saw a queue of severe depth
\* and young lines, and switched back to catchup.
C28_Witness ==
    /\ TickIn("smooth")
    /\ lastTick.leftBefore # NullMs
    /\ lastTick.nowMs - lastTick.leftBefore[1] = 125
    /\ lastTick.snapshot = StreamingQueueSnapshot(64, <<40>>)
    /\ lastTick.after.mode = "catchup"

\* The calm ticks of the stay in catchup have lasted, without a break, for
\* at least 250 ms at the latest tick.
HeldLongEnough ==
    /\ Calm(lastTick.snapshot)
    /\ lastTick.heldBefore # NullMs
    /\ lastTick.nowMs - lastTick.heldBefore[1] >= 250

\* C29 as stated: a tick leaves catchup for smooth exactly when queuedLines
\* <= 2 and oldest age <= 40 ms have held on consecutive ticks for at least
\* 250 ms; until then the policy stays in catchup.
C29_LeavesCatchUpOnlyAfterHold ==
    (lastTick.scope # "none" /\ lastTick.before.mode = "catchup") =>
        (lastTick.after.mode = "smooth" <=> HeldLongEnough)

\* C29 amended: a tick with an empty queue leaves catchup at once; a tick
\* with a non-empty queue leaves catchup exactly when queuedLines <= 2 and
\* oldest age <= 40 ms have held on consecutive ticks for at least 250 ms,
\* and a tick that breaks either threshold restarts the hold.
C29_LeavesCatchUpAfterHoldOrEmptyQueue ==
    (lastTick.scope # "none" /\ lastTick.before.mode = "catchup") =>
        /\ lastTick.snapshot.queuedLines = 0 => lastTick.after.mode = "smooth"
        /\ lastTick.snapshot.queuedLines # 0 =>
               (lastTick.after.mode = "smooth" <=> HeldLongEnough)

\* The calm ticks had begun at 500 ms, later than the stay in catchup, and
\* the tick at 750 ms, calm as well, took the policy back to smooth.
C29_Witness ==
    /\ TickIn("catchup")
    /\ lastTick.after.mode = "smooth"
    /\ lastTick.heldBefore = <<500>>
    /\ lastTick.nowMs = 750
    /\ lastTick.snapshot = StreamingQueueSnapshot(2, <<40>>)

\* C30: the drain count is 0 when the scope is catchup_only and the mode
\* after the tick is smooth; otherwise it is at most 1 in smooth mode and
\* queuedLines in catchup mode; it always lies between 0 and queuedLines.
C30_DrainCount ==
    lastTick.scope # "none" =>
        /\ lastTick.drainCount >= 0
        /\ lastTick.drainCount <= lastTick.snapshot.queuedLines
        /\ IF lastTick.scope = "catchup_only" /\ lastTick.after.mode = "smooth"
           THEN lastTick.drainCount = 0
           ELSE IF lastTick.after.mode = "smooth"
           THEN lastTick.drainCount <= 1
           ELSE lastTick.drainCount = lastTick.snapshot.queuedLines

\* A catchup_only tick that kept the policy smooth drained nothing although
\* three lines were queued.
C30_Witness ==
    /\ lastTick.scope = "catchup_only"
    /\ lastTick.after.mode = "smooth"
    /\ lastTick.snapshot.queuedLines = 3
    /\ lastTick.drainCount = 0
    /\ lastTick.before.lastCatchUpExitAtMs # NullMs

\* ------------------------------------------------------------------------
\* Specifications
\* ------------------------------------------------------------------------

IdlePatchVars ==
    /\ originalLines = <<>>
    /\ hunkChunk = NoChunk
    /\ chunksDone = 0
    /\ lineIndex = 0
    /\ seekFrom = 0
    /\ replacements = <<>>
    /\ patchStatus = "idle"
    /\ updatedLines = <<>>

InitBg == InitBgVars /\ IdleCompVars /\ IdlePatchVars /\ IdleSessVars /\ IdleShellVars /\ IdleRunVars /\ IdleRtVars /\ IdleMergeVars /\ IdleLoadVars /\ IdleStoreVars /\ IdlePolicyVars /\ IdleHunkVars /\ IdleSumVars /\ IdlePipeVars

SpecBg == InitBg /\ [][NextBg]_vars

InitCompact == IdleBgVars /\ InitCompVars /\ IdlePatchVars /\ IdleSessVars /\ IdleShellVars /\ IdleRunVars /\ IdleRtVars /\ IdleMergeVars /\ IdleLoadVars /\ IdleStoreVars /\ IdlePolicyVars /\ IdleHunkVars /\ IdleSumVars /\ IdlePipeVars

SpecCompact == InitCompact /\ [][NextCompact]_vars

InitStore == IdleBgVars /\ IdleCompVars /\ IdlePatchVars /\ IdleSessVars /\ IdleShellVars /\ IdleRunVars /\ IdleRtVars /\ IdleMergeVars /\ IdleLoadVars /\ InitStoreVars /\ IdlePolicyVars /\ IdleHunkVars /\ IdleSumVars /\ IdlePipeVars

SpecStore == InitStore /\ [][NextStore]_vars

InitLoad == IdleBgVars /\ IdleCompVars /\ IdlePatchVars /\ IdleSessVars /\ IdleShellVars /\ IdleRunVars /\ IdleRtVars /\ IdleMergeVars /\ InitLoadVars /\ IdleStoreVars /\ IdlePolicyVars /\ IdleHunkVars /\ IdleSumVars /\ IdlePipeVars

SpecLoad == InitLoad /\ [][NextLoad]_vars

InitMerge == IdleBgVars /\ IdleCompVars /\ IdlePatchVars /\ IdleSessVars /\ IdleShellVars /\ IdleRunVars /\ IdleRtVars /\ InitMergeVars /\ IdleLoadVars /\ IdleStoreVars /\ IdlePolicyVars /\ IdleHunkVars /\ IdleSumVars /\ IdlePipeVars

SpecMerge == InitMerge /\ [][NextMerge]_vars

InitPasses == IdleBgVars /\ InitPassesVars /\ IdlePatchVars /\ IdleSessVars /\ IdleShellVars /\ IdleRunVars /\ IdleRtVars /\ IdleMergeVars /\ IdleLoadVars /\ IdleStoreVars /\ IdlePolicyVars /\ IdleHunkVars /\ IdleSumVars /\ IdlePipeVars

SpecPasses == InitPasses /\ [][NextPasses]_vars

InitSummarize == IdleBgVars /\ IdleCompVars /\ IdlePatchVars /\ IdleSessVars /\ IdleShellVars /\ IdleRunVars /\ IdleRtVars /\ IdleMergeVars /\ IdleLoadVars /\ IdleStoreVars /\ IdlePolicyVars /\ IdleHunkVars /\ InitSumVars /\ IdlePipeVars

SpecSummarize == InitSummarize /\ [][NextSummarize]_vars

InitPatch == IdleBgVars /\ IdleCompVars /\ InitPatchVars /\ IdleSessVars /\ IdleShellVars /\ IdleRunVars /\ IdleRtVars /\ IdleMergeVars /\ IdleLoadVars /\ IdleStoreVars /\ IdlePolicyVars /\ IdleHunkVars /\ IdleSumVars /\ IdlePipeVars

SpecPatch == InitPatch /\ [][NextPatch]_vars

InitHunks == IdleBgVars /\ IdleCompVars /\ IdlePatchVars /\ IdleSessVars /\ IdleShellVars /\ IdleRunVars /\ IdleRtVars /\ IdleMergeVars /\ IdleLoadVars /\ IdleStoreVars /\ IdlePolicyVars /\ InitHunkVars /\ IdleSumVars /\ IdlePipeVars

SpecHunks == InitHunks /\ [][NextHunks]_vars

InitSess == IdleBgVars /\ IdleCompVars /\ IdlePatchVars /\ InitSessVars /\ IdleShellVars /\ IdleRunVars /\ IdleRtVars /\ IdleMergeVars /\ IdleLoadVars /\ IdleStoreVars /\ IdlePolicyVars /\ IdleHunkVars /\ IdleSumVars /\ IdlePipeVars

SpecSess == InitSess /\ [][NextSess]_vars

InitReuse == IdleBgVars /\ IdleCompVars /\ IdlePatchVars /\ IdleSessVars /\ IdleShellVars /\ IdleRunVars /\ IdleRtVars /\ IdleMergeVars /\ IdleLoadVars /\ IdleStoreVars /\ IdlePolicyVars /\ IdleHunkVars /\ IdleSumVars /\ IdlePipeVars

SpecReuse == InitReuse /\ [][NextReuse]_vars

InitRun == IdleBgVars /\ IdleCompVars /\ IdlePatchVars /\ IdleSessVars /\ IdleShellVars /\ InitRunVars /\ IdleRtVars /\ IdleMergeVars /\ IdleLoadVars /\ IdleStoreVars /\ IdlePolicyVars /\ IdleHunkVars /\ IdleSumVars /\ IdlePipeVars

SpecRun == InitRun /\ [][NextRun]_vars

InitShell == IdleBgVars /\ IdleCompVars /\ IdlePatchVars /\ IdleSessVars /\ InitShellVars /\ IdleRunVars /\ IdleRtVars /\ IdleMergeVars /\ IdleLoadVars /\ IdleStoreVars /\ IdlePolicyVars /\ IdleHunkVars /\ IdleSumVars /\ IdlePipeVars

SpecShell == InitShell /\ [][NextShell]_vars

InitOverlap == IdleBgVars /\ IdleCompVars /\ IdlePatchVars /\ IdleSessVars /\ InitShellVars /\ IdleRunVars /\ IdleRtVars /\ IdleMergeVars /\ IdleLoadVars /\ IdleStoreVars /\ IdlePolicyVars /\ IdleHunkVars /\ IdleSumVars /\ IdlePipeVars

SpecOverlap == InitOverlap /\ [][NextOverlap]_vars

InitRt == IdleBgVars /\ IdleCompVars /\ IdlePatchVars /\ IdleSessVars /\ IdleShellVars /\ IdleRunVars /\ InitRtVars /\ IdleMergeVars /\ IdleLoadVars /\ IdleStoreVars /\ IdlePolicyVars /\ IdleHunkVars /\ IdleSumVars /\ IdlePipeVars

SpecRt == InitRt /\ [][NextRt]_vars

\* Node runs a timer's callback once the timer is due: the grace timer and
\* the SIGKILL timers do fire. Nothing obliges the child to exit or its
\* pipes to close.
InitPolicy == IdleBgVars /\ IdleCompVars /\ IdlePatchVars /\ IdleSessVars /\ IdleShellVars /\ IdleRunVars /\ IdleRtVars /\ IdleMergeVars /\ IdleLoadVars /\ IdleStoreVars /\ InitPolicyVars /\ IdleHunkVars /\ IdleSumVars /\ IdlePipeVars

SpecPolicy == InitPolicy /\ [][NextPolicy]_vars

SpecRunLive == InitRun /\ [][NextRun]_vars /\ WF_vars(RunGraceTimer) /\ WF_vars(RunKillTimer)

InitPipe == InitBgVars /\ IdleCompVars /\ IdlePatchVars /\ IdleSessVars /\ IdleShellVars /\ IdleRunVars /\ IdleRtVars /\ IdleMergeVars /\ IdleLoadVars /\ IdleStoreVars /\ IdlePolicyVars /\ IdleHunkVars /\ IdleSumVars /\ session.transport = "pipe" /\ InitPipeVars

\* Node emits close once the shell has ended and its pipes are closed; a
\* descendant is under no obligation to end.
SpecPipe == InitPipe /\ [][NextPipe]_vars /\ WF_vars(PipeChildOnClose)

====
